---- MODULE Spec2Model ----
(***************************************************************************)
(* Model of the LoopBack-filter to CAML translator of                      *)
(* loopback-connector-sharepoint (class SPLib).                            *)
(*                                                                         *)
(* JavaScript values are modelled as tagged records; an object is the      *)
(* sequence of its own enumerable properties in insertion order, which is  *)
(* the order Object.keys, Object.values and the XML builder observe.       *)
(***************************************************************************)
EXTENDS Integers, Sequences, FiniteSets, TLC

VARIABLES
  model,     \* this.model.properties of the SPLib the call is made on
  lbWhere,   \* the argument of buildWhere, filter.where
  property,  \* the argument of getSPFieldName and getSPFieldType
  order,     \* the argument of buildOrderBy, filter.order
  fields,    \* the argument of buildViewFields, filter.fields
  limit,     \* the argument of buildRowLimit, filter.limit
  call,      \* the method that has been called, "" before the call
  pc,        \* "ready" before the call, "done" once it has returned or thrown
  ret,       \* what the call returned, or the error it threw
  log,       \* the calls one SPLib has served, oldest first, with their results
  camlDebug, \* this.camlDebug of the CamlBuilder
  skip,      \* filter.skip
  dataArg,   \* the argument data of updateAll
  lbFilter,  \* the filter object the caller passed to all, as it stands
  spList,    \* the items of the SharePoint list
  handler,   \* the handler registered on the promise that is awaited
  originalFields, \* the local of all, line 191
  originalLimit,  \* the local of all, line 192
  affectedRows,   \* the local of updateAll and destroyAll, lines 87 and 153
  request,   \* the argument of getItemsFiltered, then the query it has sent
  settled,   \* how the awaited promise was settled, Undef while it is pending
  batch,     \* the batched per-item promises: item ID -> state
  callbacks  \* the invocations of the callback, oldest first

\* the builders' own state
builders == <<log, camlDebug>>

\* the state of a call served by the connector
connector ==
  <<skip, dataArg, lbFilter, spList, handler, originalFields, originalLimit, affectedRows,
    request, settled, batch, callbacks>>

vars ==
  <<model, lbWhere, property, order, fields, limit, call, pc, ret, builders,
    connector>>

\* the values a call leaves alone: the SPLib and its arguments
args == <<model, lbWhere, property, order, fields, limit>>

----------------------------------------------------------------------------
(* JavaScript values *)

Undef == [t |-> "undef"]

Null == [t |-> "null"]

Str(s) == [t |-> "str", s |-> s]

Num(n) == [t |-> "num", n |-> n]

Bool(b) == [t |-> "bool", b |-> b]

\* a Date object, identified by what toISOString() returns for it
DateV(iso) == [t |-> "date", iso |-> iso]

Arr(a) == [t |-> "arr", a |-> a]

\* e is the sequence of [k, v] properties in insertion order
Obj(e) == [t |-> "obj", e |-> e]

KV(k, v) == [k |-> k, v |-> v]

\* a thrown Error / TypeError
Throw(msg) == [t |-> "throw", msg |-> msg]

IsThrow(v) == v.t = "throw"

HasOwn(o, k) == o.t = "obj" /\ \E i \in 1..Len(o.e) : o.e[i].k = k

KeyIndex(o, k) == CHOOSE i \in 1..Len(o.e) : o.e[i].k = k

\* o[k]
Get(o, k) == IF HasOwn(o, k) THEN o.e[KeyIndex(o, k)].v ELSE Undef

\* o[k] = v : an existing key keeps its position, a new key goes last
Put(o, k, v) ==
  IF HasOwn(o, k)
  THEN Obj([o.e EXCEPT ![KeyIndex(o, k)] = KV(k, v)])
  ELSE Obj(Append(o.e, KV(k, v)))

\* Object.keys(v) for the values the translator applies it to
ObjectKeys(v) ==
  CASE v.t = "obj" -> [i \in 1..Len(v.e) |-> v.e[i].k]
    [] v.t = "arr" -> [i \in 1..Len(v.a) |-> ToString(i - 1)]
    [] OTHER -> << >>

ObjectValues(v) ==
  CASE v.t = "obj" -> [i \in 1..Len(v.e) |-> v.e[i].v]
    [] v.t = "arr" -> v.a
    [] OTHER -> << >>

\* lodash _.isObject: objects, arrays and Dates, not primitives
isObject(v) == v.t \in {"obj", "arr", "date"}

\* lodash _.isEmpty: an object without keys, an array or string of length 0,
\* and every other value (undefined, null, numbers, booleans, Dates)
isEmpty(v) ==
  CASE v.t = "obj" -> Len(v.e) = 0
    [] v.t = "arr" -> Len(v.a) = 0
    [] v.t = "str" -> Len(v.s) = 0
    [] OTHER -> TRUE

\* a computed property key {[x]: ...}: the key is String(x)
PropKey(v) == IF v.t = "undef" THEN "undefined" ELSE v.s

\* String.prototype.toLowerCase on the operator and type names in use
toLower(s) ==
  CASE s = "GT" -> "gt"
    [] s = "String" -> "string"
    [] s = "Number" -> "number"
    [] s = "Boolean" -> "boolean"
    [] s = "Date" -> "date"
    [] s = "Object" -> "object"
    [] s = "AnonymousModel_0" -> "anonymousmodel_0"
    [] OTHER -> s

----------------------------------------------------------------------------
(* The model definition handed to the SPLib constructor (this.model).      *)
(* "" stands for an absent sharepoint.columnName / sharepoint.dataType:    *)
(* the code reads both with `_.get(...) || fallback`, which treats the     *)
(* empty string and undefined alike.                                       *)

ModelProperties ==
  [p \in {"firstName", "lastName", "age", "startDate", "isEmployee", "nickname"} |->
     CASE p = "firstName" -> [type |-> "String", columnName |-> "FirstName", dataType |-> ""]
       [] p = "lastName" -> [type |-> "String", columnName |-> "LastName", dataType |-> ""]
       [] p = "age" -> [type |-> "Number", columnName |-> "Age", dataType |-> ""]
       [] p = "startDate" -> [type |-> "Date", columnName |-> "StartDate", dataType |-> ""]
       [] p = "isEmployee" -> [type |-> "Boolean", columnName |-> "IsEmployee", dataType |-> ""]
       [] p = "nickname" -> [type |-> "String", columnName |-> "", dataType |-> "Note"]]

\* getSPFieldName without the lookup of sharepoint.columnName
getSPFieldName_verbatim(name) == name

getSPFieldName(name) ==
  IF name \in DOMAIN model /\ model[name].columnName # ""
  THEN model[name].columnName
  ELSE name

getDefaultSharePointType(lsType) ==
  CASE toLower(lsType) = "string" -> "Text"
    [] toLower(lsType) = "number" -> "Number"
    [] toLower(lsType) = "boolean" -> "Boolean"
    [] toLower(lsType) = "date" -> "DateTime"
    [] OTHER -> "Text"

\* getSPFieldType without the test for "ID" of line 231
getSPFieldType_plainID(name) ==
  IF name \notin DOMAIN model
  THEN Throw("Property is not defined for type")
  ELSE IF model[name].dataType # ""
       THEN Str(model[name].dataType)
       ELSE Str(getDefaultSharePointType(model[name].type))

\* returns Str(type) or a Throw
getSPFieldType(name) ==
  IF name = "ID" THEN Str("Number")
  ELSE IF name \notin DOMAIN model
       THEN Throw("Property is not defined for type")
       ELSE IF model[name].dataType # ""
            THEN Str(model[name].dataType)
            ELSE Str(getDefaultSharePointType(model[name].type))

----------------------------------------------------------------------------
(* Leaf expressions *)

\* returns Str(name), or Undef when the switch has no case for the name
getCamlName(lbName) ==
  CASE toLower(lbName) = "and" -> Str("And")
    [] toLower(lbName) = "or" -> Str("Or")
    [] toLower(lbName) = "=" -> Str("Eq")
    [] toLower(lbName) = "neq" -> Str("Neq")
    [] toLower(lbName) = "gt" -> Str("Gt")
    [] toLower(lbName) = "gte" -> Str("Geq")
    [] toLower(lbName) = "lt" -> Str("Lt")
    [] toLower(lbName) = "lte" -> Str("Leq")
    [] toLower(lbName) = "inq" -> Str("In")
    [] toLower(lbName) = "like" -> Str("BeginsWith")
    [] toLower(lbName) = "contains" -> Str("Contains")
    [] OTHER -> Undef

\* returns [t |-> "triple", field, operator, value] or a Throw
parseExpression(expression) ==
  LET expressionKeys == ObjectKeys(expression) IN
  IF Len(expressionKeys) # 1 THEN Throw("Invalid expression")
  ELSE LET field == expressionKeys[1]
           v == Get(expression, field) IN
       IF ~isObject(v)
       THEN [t |-> "triple", field |-> field, operator |-> "=", value |-> v]
       ELSE LET conditionKeys == ObjectKeys(v) IN
            IF Len(conditionKeys) # 1 THEN Throw("Invalid condition")
            ELSE [t |-> "triple", field |-> field, operator |-> conditionKeys[1],
                  value |-> IF v.t = "arr" THEN v.a[1] ELSE Get(v, conditionKeys[1])]

FieldRef(name) == Obj(<<KV("$", Obj(<<KV("Name", Str(name))>>))>>)

\* {_: v, $: {Type: fieldType}}
TypedValue(v, fieldType) ==
  Obj(<<KV("_", v), KV("$", Obj(<<KV("Type", Str(fieldType))>>))>>)

\* camlValuesOf with the last element of the array left out
camlValuesOf_dropLast(a, fieldType) == [i \in 1..(Len(a) - 1) |-> TypedValue(a[i], fieldType)]

\* _.map(value, (v) => ({_: v, $: {Type: fieldType}}))
camlValuesOf(a, fieldType) == [i \in 1..Len(a) |-> TypedValue(a[i], fieldType)]

_buildCamlExpression(expression) ==
  LET parsed == parseExpression(expression) IN
  IF IsThrow(parsed) THEN parsed
  ELSE LET field == parsed.field
           operator == parsed.operator
           value == parsed.value
           fieldType == getSPFieldType(field) IN
       IF IsThrow(fieldType) THEN fieldType
       ELSE IF operator = "inq" \/ operator = "nin"
            THEN IF value.t # "arr" THEN Throw("Invalid 'in' values. Must be an array.")
                 ELSE LET camlValues == camlValuesOf(value.a, fieldType.s) IN
                      Obj(<<KV(PropKey(getCamlName(operator)),
                               Obj(<<KV("FieldRef", FieldRef(getSPFieldName(field))),
                                     KV("Values", Obj(<<KV("Value", Arr(camlValues))>>))>>))>>)
            ELSE LET formattedValue ==
                       CASE value.t = "date" -> Str(value.iso)
                         [] value.t = "bool" -> Num(IF value.b THEN 1 ELSE 0)
                         [] OTHER -> value IN
                 Obj(<<KV(PropKey(getCamlName(operator)),
                          Obj(<<KV("FieldRef", FieldRef(getSPFieldName(field))),
                                KV("Value", TypedValue(formattedValue, fieldType.s))>>))>>)

----------------------------------------------------------------------------
(* Logical conditions.  _addCamlCondition mutates the object it is given   *)
(* and may return a reference to an object nested in it; a reference is    *)
(* modelled as the path of keys that leads from the root object            *)
(* (`result` of _buildCamlCondition) to the referenced object.             *)

Ref(path) == [def |-> TRUE, path |-> path]

NoRef == [def |-> FALSE, path |-> << >>]

RECURSIVE GetAt(_, _)
GetAt(root, path) ==
  IF Len(path) = 0 THEN root ELSE GetAt(Get(root, Head(path)), Tail(path))

RECURSIVE SetAt(_, _, _)
SetAt(root, path, v) ==
  IF Len(path) = 0 THEN v
  ELSE Put(root, Head(path), SetAt(Get(root, Head(path)), Tail(path), v))

\* returns [t |-> "added", root, ref], ref being the returned reference
\* (NoRef when the function returns undefined), or a Throw
_addCamlCondition(newLogicalOperator, root, ref, camlCondition) ==
  IF ~ref.def THEN Throw("TypeError: Cannot convert undefined or null to object")
  ELSE
  LET camlObject == GetAt(root, ref.path)
      objKeys == ObjectKeys(camlObject) IN
  IF Len(objKeys) = 0 THEN Throw("TypeError: Cannot read property of undefined")
  ELSE
  LET logicalOperator == objKeys[Len(objKeys)]
      inner == Get(camlObject, logicalOperator)
      innerPath == Append(ref.path, logicalOperator)
      condKeys == ObjectKeys(camlCondition)
      operator == IF Len(condKeys) = 0 THEN "undefined" ELSE condKeys[1]
      condition == IF Len(condKeys) = 0 THEN Undef ELSE ObjectValues(camlCondition)[1] IN
  IF inner.t = "arr" THEN Throw("array used as a logical element")
  ELSE IF inner.t # "obj" THEN Throw("TypeError: Cannot create property")
  ELSE
  LET cur == Get(inner, operator) IN
  IF HasOwn(inner, operator) /\ cur.t = "arr" /\ Len(cur.a) = 2
  THEN LET lastCondition == cur.a[2]
           popped == Put(inner, operator, cur.a[1])
           nested == Put(popped, newLogicalOperator,
                         Obj(<<KV(operator, Arr(<<lastCondition, condition>>))>>)) IN
       [t |-> "added", root |-> SetAt(root, innerPath, nested), ref |-> Ref(innerPath)]
  ELSE
  LET inner1 == IF ~HasOwn(inner, operator) THEN Put(inner, operator, condition)
                ELSE IF cur.t # "arr" THEN Put(inner, operator, Arr(<<cur, condition>>))
                ELSE inner
      keys == ObjectKeys(inner1)
      values == ObjectValues(inner1) IN
  IF Len(keys) = 3
  THEN LET moved == Put(Put(Obj(<< >>), keys[1], values[1]), logicalOperator,
                        Obj(<<KV(keys[2], values[2]), KV(keys[3], values[3])>>)) IN
       [t |-> "added", root |-> SetAt(root, innerPath, moved), ref |-> Ref(innerPath)]
  ELSE [t |-> "added", root |-> SetAt(root, innerPath, inner1), ref |-> NoRef]

\* lbConditions[index], index counted from 0 as in the source
At(lbConditions, index) ==
  IF index + 1 \in 1..Len(lbConditions) THEN lbConditions[index + 1] ELSE Undef

RECURSIVE _buildCamlCondition(_), _buildLogicalCaml(_, _, _, _, _)

\* returns the compiled CAML object or a Throw
_buildCamlCondition(where) ==
  IF where.t = "undef" THEN Throw("TypeError: Cannot convert undefined or null to object")
  ELSE
  LET keys == ObjectKeys(where) IN
  IF Len(keys) = 0 THEN Obj(<< >>)
  ELSE IF Len(keys) = 1
  THEN IF (keys[1] = "or" \/ keys[1] = "and") /\ Get(where, keys[1]).t = "arr"
       THEN LET camlOperator == PropKey(getCamlName(keys[1]))
                result == Obj(<<KV(camlOperator, Obj(<< >>))>>) IN
            _buildLogicalCaml(camlOperator, Get(where, keys[1]).a, result, Ref(<< >>), 0)
       ELSE _buildCamlExpression(where)
  ELSE Throw("Invalid 'where' clause. It must be in {key: value} format.")

\* returns `result` as the calls have left it, or a Throw; root is the object
\* _buildCamlCondition created and ref the `result` argument of this call
_buildLogicalCaml(operator, lbConditions, root, ref, index) ==
  IF index = Len(lbConditions) THEN root
  ELSE IF index = 0
  THEN LET firstCondition == _buildCamlCondition(At(lbConditions, 0)) IN
       IF IsThrow(firstCondition) THEN firstCondition
       ELSE LET secondCondition == _buildCamlCondition(At(lbConditions, 1)) IN
       IF IsThrow(secondCondition) THEN secondCondition
       ELSE LET a1 == _addCamlCondition(operator, root, ref, firstCondition) IN
       IF IsThrow(a1) THEN a1
       ELSE LET a2 == _addCamlCondition(operator, a1.root, ref, secondCondition) IN
       IF IsThrow(a2) THEN a2
       ELSE _buildLogicalCaml(operator, lbConditions, a2.root, ref, 2)
  ELSE LET condition == _buildCamlCondition(At(lbConditions, index)) IN
       IF IsThrow(condition) THEN condition
       ELSE LET a == _addCamlCondition(operator, root, ref, condition) IN
       IF IsThrow(a) THEN a
       ELSE _buildLogicalCaml(operator, lbConditions, a.root, a.ref, index + 1)

----------------------------------------------------------------------------
(* xmlBuilder.buildObject (xml2js Builder, headless, not pretty): the      *)
(* document is a tree of elements and text nodes, written out as a string. *)

El(tag) == [t |-> "el", tag |-> tag, attrs |-> << >>, kids |-> << >>]

Txt(s) == [t |-> "txt", s |-> s]

AddKid(el, kid) == [el EXCEPT !.kids = Append(@, kid)]

AddAttr(el, name, value) == [el EXCEPT !.attrs = Append(@, KV(name, value))]

\* '' + v, the text xmlbuilder writes for a value
TextOf(v) ==
  CASE v.t = "str" -> v.s
    [] v.t = "num" -> ToString(v.n)
    [] v.t = "bool" -> IF v.b THEN "true" ELSE "false"
    [] OTHER -> ""

RECURSIVE AddAttrs(_, _, _)
AddAttrs(el, e, i) ==
  IF i > Len(e) THEN el ELSE AddAttrs(AddAttr(el, e[i].k, TextOf(e[i].v)), e, i + 1)

RECURSIVE render(_, _), renderProps(_, _, _), renderEntries(_, _, _, _), renderItems(_, _, _), renderItemProps(_, _, _)

render(element, obj) ==
  IF obj.t \notin {"obj", "arr"} THEN AddKid(element, Txt(TextOf(obj)))
  ELSE IF obj.t = "arr" THEN renderItems(element, obj.a, 1)
  ELSE renderProps(element, obj.e, 1)

\* for own key, child of obj
renderProps(element, e, i) ==
  IF i > Len(e) THEN element
  ELSE LET key == e[i].k
           child == e[i].v
           next == IF key = "$"
                   THEN IF child.t = "obj" THEN AddAttrs(element, child.e, 1) ELSE element
                   ELSE IF key = "_" THEN AddKid(element, Txt(TextOf(child)))
                   ELSE IF child.t = "arr" THEN renderEntries(element, key, child.a, 1)
                   ELSE IF child.t = "obj" THEN AddKid(element, render(El(key), child))
                   ELSE AddKid(element, AddKid(El(key), Txt(TextOf(child)))) IN
       renderProps(next, e, i + 1)

\* an array child: one element named key per entry
renderEntries(element, key, a, i) ==
  IF i > Len(a) THEN element
  ELSE LET entry == a[i]
           next == IF entry.t = "str" THEN AddKid(element, AddKid(El(key), Txt(entry.s)))
                   ELSE AddKid(element, render(El(key), entry)) IN
       renderEntries(next, key, a, i + 1)

\* render called on an array: every property of every item becomes an element
renderItems(element, a, i) ==
  IF i > Len(a) THEN element
  ELSE renderItems(IF a[i].t = "obj" THEN renderItemProps(element, a[i].e, 1) ELSE element,
                   a, i + 1)

renderItemProps(element, e, j) ==
  IF j > Len(e) THEN element
  ELSE renderItemProps(AddKid(element, render(El(e[j].k), e[j].v)), e, j + 1)

\* the root element takes the name of the single key of rootObj
buildObject(rootObj) ==
  IF Len(rootObj.e) = 1 THEN render(El(rootObj.e[1].k), rootObj.e[1].v)
  ELSE render(El("root"), rootObj)

RECURSIVE AttrString(_, _)
AttrString(attrs, i) ==
  IF i > Len(attrs) THEN ""
  ELSE " " \o attrs[i].k \o "=\"" \o attrs[i].v \o "\"" \o AttrString(attrs, i + 1)

RECURSIVE XmlString(_), KidsString(_, _)

\* an element without content is written self-closing
XmlString(node) ==
  IF node.t = "txt" THEN node.s
  ELSE IF \A i \in 1..Len(node.kids) : node.kids[i].t = "txt" /\ node.kids[i].s = ""
       THEN "<" \o node.tag \o AttrString(node.attrs, 1) \o "/>"
       ELSE "<" \o node.tag \o AttrString(node.attrs, 1) \o ">"
            \o KidsString(node.kids, 1) \o "</" \o node.tag \o ">"

KidsString(kids, i) ==
  IF i > Len(kids) THEN "" ELSE XmlString(kids[i]) \o KidsString(kids, i + 1)

\* what a build method hands back: the document and the string written from it
\* (doc is bound to its value, so that it is computed once)
Xml(doc) == CHOOSE x \in {[t |-> "xml", doc |-> d, s |-> XmlString(d)] : d \in {doc}} : TRUE

\* returns an Xml or a Throw (caml, the const where of line 32, is bound to
\* its value, so that it is computed once)
buildWhere(where) ==
  IF isEmpty(where) THEN Xml(Txt(""))
  ELSE CHOOSE r \in {IF IsThrow(caml) THEN caml
                      ELSE Xml(buildObject(Obj(<<KV("Where", caml)>>))) :
                      caml \in {_buildCamlCondition(where)}} : TRUE

----------------------------------------------------------------------------
(* Strings: the characters of a string are read with Len, Head, Tail and   *)
(* SubSeq.                                                                 *)

LowerCaseLetters == "abcdefghijklmnopqrstuvwxyz"

UpperCaseLetters == "ABCDEFGHIJKLMNOPQRSTUVWXYZ"

\* the upper case form of a character
UpperChar(c) ==
  IF \E i \in 1..Len(LowerCaseLetters) : SubSeq(LowerCaseLetters, i, i) = c
  THEN LET i == CHOOSE i \in 1..Len(LowerCaseLetters) : SubSeq(LowerCaseLetters, i, i) = c IN
       SubSeq(UpperCaseLetters, i, i)
  ELSE c

RECURSIVE toUpperCase(_)
\* String.prototype.toUpperCase
toUpperCase(s) ==
  IF Len(s) = 0 THEN "" ELSE UpperChar(Head(s)) \o toUpperCase(Tail(s))

RECURSIVE IndexOfSpace(_, _)
\* the position of the first ' ' of s at or after position i, or 0
IndexOfSpace(s, i) ==
  IF i > Len(s) THEN 0
  ELSE IF SubSeq(s, i, i) = " " THEN i ELSE IndexOfSpace(s, i + 1)

RECURSIVE split(_)
\* String.prototype.split(' '): the parts between single spaces
split(s) ==
  LET i == IndexOfSpace(s, 1) IN
  IF i = 0 THEN <<s>>
  ELSE <<SubSeq(s, 1, i - 1)>> \o split(SubSeq(s, i + 1, Len(s)))

----------------------------------------------------------------------------
(* OrderBy *)

\* _getOrderByFieldRef comparing the direction as written, without
\* toUpperCase
_getOrderByFieldRef_asWritten(orderClause) ==
  IF orderClause.t # "str"
  THEN Throw("Invalid order expression. Must be a string.")
  ELSE LET clauseParts == split(orderClause.s) IN
       IF Len(clauseParts) = 1
       THEN Obj(<<KV("FieldRef", FieldRef(getSPFieldName(clauseParts[1])))>>)
       ELSE IF Len(clauseParts) = 2
       THEN IF clauseParts[2] \notin {"ASC", "DESC"}
            THEN Throw("Invalid order direction. Must be either ASC or DESC")
            ELSE LET isAscending == IF clauseParts[2] = "ASC" THEN "TRUE" ELSE "FALSE" IN
                 Obj(<<KV("FieldRef",
                          Obj(<<KV("$", Obj(<<KV("Name", Str(getSPFieldName(clauseParts[1]))),
                                              KV("Ascending", Str(isAscending))>>))>>))>>)
       ELSE Undef

\* returns {FieldRef: ...}, Undef when the clause has more than two parts,
\* or a Throw
_getOrderByFieldRef(orderClause) ==
  IF orderClause.t # "str"
  THEN Throw("Invalid order expression. Must be a string.")
  ELSE LET clauseParts == split(orderClause.s) IN
       IF Len(clauseParts) = 1
       THEN Obj(<<KV("FieldRef", FieldRef(getSPFieldName(clauseParts[1])))>>)
       ELSE IF Len(clauseParts) = 2
       THEN IF toUpperCase(clauseParts[2]) \notin {"ASC", "DESC"}
            THEN Throw("Invalid order direction. Must be either ASC or DESC")
            ELSE LET isAscending ==
                       IF toUpperCase(clauseParts[2]) = "ASC" THEN "TRUE" ELSE "FALSE" IN
                 Obj(<<KV("FieldRef",
                          Obj(<<KV("$", Obj(<<KV("Name", Str(getSPFieldName(clauseParts[1]))),
                                              KV("Ascending", Str(isAscending))>>))>>))>>)
       ELSE Undef

RECURSIVE mapOrderByFieldRef(_, _)
\* _.map(order, _getOrderByFieldRef) from element i on: the array of the
\* results, or the first Throw
mapOrderByFieldRef(a, i) ==
  IF i > Len(a) THEN Arr(<< >>)
  ELSE LET fieldRef == _getOrderByFieldRef(a[i]) IN
       IF IsThrow(fieldRef) THEN fieldRef
       ELSE LET rest == mapOrderByFieldRef(a, i + 1) IN
            IF IsThrow(rest) THEN rest ELSE Arr(<<fieldRef>> \o rest.a)

\* the document of the literal of line 44
DefaultOrderBy ==
  AddKid(El("OrderBy"), AddAttr(AddAttr(El("FieldRef"), "Name", "ID"), "Ascending", "False"))

\* buildOrderBy without the default of lines 43-45
buildOrderBy_noDefault(orderArg) ==
  IF isEmpty(orderArg) THEN Xml(Txt(""))
  ELSE LET fieldRefs == IF orderArg.t = "arr"
                        THEN mapOrderByFieldRef(orderArg.a, 1)
                        ELSE _getOrderByFieldRef(orderArg) IN
       IF IsThrow(fieldRefs) THEN fieldRefs
       ELSE IF fieldRefs.t = "undef" THEN Throw("Missing element text")
       ELSE Xml(buildObject(Obj(<<KV("OrderBy", fieldRefs)>>)))

\* returns an Xml or a Throw.  The builder has no text to write for
\* {OrderBy: undefined} and throws.
buildOrderBy(orderArg) ==
  IF isEmpty(orderArg) THEN Xml(DefaultOrderBy)
  ELSE LET fieldRefs == IF orderArg.t = "arr"
                        THEN mapOrderByFieldRef(orderArg.a, 1)
                        ELSE _getOrderByFieldRef(orderArg) IN
       IF IsThrow(fieldRefs) THEN fieldRefs
       ELSE IF fieldRefs.t = "undef" THEN Throw("Missing element text")
       ELSE Xml(buildObject(Obj(<<KV("OrderBy", fieldRefs)>>)))

----------------------------------------------------------------------------
(* ViewFields *)

\* the values _.map iterates over: the elements of an array, the values of
\* an object, the characters of a string
Iteratees(v) ==
  IF v.t = "str" THEN [i \in 1..Len(v.s) |-> Str(SubSeq(v.s, i, i))]
  ELSE ObjectValues(v)

\* this.getSPFieldName(field) for a field of any type: only a string can
\* name a declared property
FieldNameOf(field) ==
  IF field.t = "str" THEN Str(getSPFieldName(field.s)) ELSE field

\* buildViewFields naming each FieldRef by the field as given
buildViewFields_verbatim(fieldsArg) ==
  IF isEmpty(fieldsArg) THEN Xml(Txt(""))
  ELSE LET viewFields ==
             [i \in 1..Len(Iteratees(fieldsArg)) |->
                Obj(<<KV("FieldRef",
                         Obj(<<KV("$", Obj(<<KV("Name", Iteratees(fieldsArg)[i])>>))>>))>>)] IN
       Xml(buildObject(Obj(<<KV("ViewFields", Arr(viewFields))>>)))

\* returns an Xml
buildViewFields(fieldsArg) ==
  IF isEmpty(fieldsArg) THEN Xml(Txt(""))
  ELSE LET viewFields ==
             [i \in 1..Len(Iteratees(fieldsArg)) |->
                Obj(<<KV("FieldRef",
                         Obj(<<KV("$", Obj(<<KV("Name", FieldNameOf(Iteratees(fieldsArg)[i]))>>))>>))>>)] IN
       Xml(buildObject(Obj(<<KV("ViewFields", Arr(viewFields))>>)))

----------------------------------------------------------------------------
(* RowLimit *)

NaN == [t |-> "nan"]

\* lodash toString, as _.parseInt applies it to its argument
toString(v) ==
  CASE v.t = "str" -> v.s
    [] v.t = "num" -> ToString(v.n)
    [] v.t = "bool" -> IF v.b THEN "true" ELSE "false"
    [] OTHER -> ""

Digits == "0123456789"

IsDigit(c) == \E i \in 1..Len(Digits) : SubSeq(Digits, i, i) = c

DigitValue(c) == (CHOOSE i \in 1..Len(Digits) : SubSeq(Digits, i, i) = c) - 1

RECURSIVE trimStart(_)
\* without the leading spaces
trimStart(s) ==
  IF Len(s) > 0 /\ Head(s) = " " THEN trimStart(Tail(s)) ELSE s

RECURSIVE parseDigits(_, _)
\* the value of the leading decimal digits of s, after the digits of value acc
parseDigits(s, acc) ==
  IF Len(s) > 0 /\ IsDigit(Head(s))
  THEN parseDigits(Tail(s), 10 * acc + DigitValue(Head(s)))
  ELSE acc

\* _.parseInt(v): the decimal integer at the start of the string of v, NaN
\* when there is no digit there
parseInt(v) ==
  LET s == trimStart(toString(v))
      negative == Len(s) > 0 /\ Head(s) = "-"
      signed == Len(s) > 0 /\ Head(s) \in {"-", "+"}
      digits == IF signed THEN Tail(s) ELSE s IN
  IF Len(digits) = 0 \/ ~IsDigit(Head(digits)) THEN NaN
  ELSE Num(IF negative THEN 0 - parseDigits(digits, 0) ELSE parseDigits(digits, 0))

\* returns an Xml; !limit holds for NaN and for 0
buildRowLimit(limitArg) ==
  LET parsed == parseInt(limitArg) IN
  IF parsed.t = "nan" \/ parsed.n = 0 THEN Xml(Txt(""))
  ELSE Xml(buildObject(Obj(<<KV("RowLimit", parsed)>>)))

----------------------------------------------------------------------------
(* buildQuery: the template literal of line 19 evaluates its four calls    *)
(* from left to right; the first error ends the call.                      *)

\* the template with the RowLimit fragment written inside Query
ViewXml_limitInQuery(viewFields, where, orderBy, rowLimit) ==
  IF IsThrow(viewFields) THEN viewFields
  ELSE IF IsThrow(where) THEN where
  ELSE IF IsThrow(orderBy) THEN orderBy
  ELSE IF IsThrow(rowLimit) THEN rowLimit
  ELSE Obj(<<KV("ViewXml",
                Str("<View>" \o viewFields.s \o "<Query>" \o where.s \o orderBy.s
                    \o rowLimit.s \o "</Query>" \o "</View>"))>>)

\* the object of lines 18-20 for the results of the four calls, or the
\* first Throw among them
ViewXml(viewFields, where, orderBy, rowLimit) ==
  IF IsThrow(viewFields) THEN viewFields
  ELSE IF IsThrow(where) THEN where
  ELSE IF IsThrow(orderBy) THEN orderBy
  ELSE IF IsThrow(rowLimit) THEN rowLimit
  ELSE Obj(<<KV("ViewXml",
                Str("<View>" \o viewFields.s \o "<Query>" \o where.s \o orderBy.s
                    \o "</Query>" \o rowLimit.s \o "</View>"))>>)

\* returns {ViewXml: string} or a Throw
buildQuery(filter) ==
  ViewXml(buildViewFields(filter.fields), buildWhere(filter.where),
          buildOrderBy(filter.order), buildRowLimit(filter.limit))

----------------------------------------------------------------------------
(* The where clauses the translator is run on *)

\* an upper bound on the number of elements of an inq array
MaxValues == 2

\* an upper bound on the number of leaf comparisons of a where tree
MaxLeaves == 4

\* "middleName" is not a property of the model
Fields == {"firstName", "age", "isEmployee", "startDate", "nickname", "ID", "middleName"}

OperatorKeys ==
  {"eq", "neq", "gt", "gte", "lt", "lte", "like", "contains", "inq", "nin", "in",
   "between", "GT"}

\* the operators the translator treats as multi-valued
ArrayOperatorKeys == {"inq", "nin"}

ScalarValues ==
  {Str("Doe"), Num(28), Bool(TRUE), Bool(FALSE), DateV("2019-01-01T05:00:00.000Z")}

ArrayElements == {Num(4), Num(5), Bool(TRUE), Bool(FALSE)}

ArrayValues ==
  {Arr(a) : a \in UNION {[1..n -> ArrayElements] : n \in 0..MaxValues}}

\* {field: value} and {field: {operator: value}}; arrays are given to the
\* multi-valued operators only
LeafClauses ==
  {Obj(<<KV(f, v)>>) : f \in Fields, v \in ScalarValues}
  \cup {Obj(<<KV(f, Obj(<<KV(op, v)>>))>>) :
          f \in Fields, op \in OperatorKeys, v \in ScalarValues}
  \cup {Obj(<<KV(f, Obj(<<KV(op, v)>>))>>) :
          f \in Fields, op \in ArrayOperatorKeys, v \in ArrayValues}

\* the comparisons the where trees are built from
TreeLeaves ==
  {Obj(<<KV("firstName", Str("Joe"))>>),
   Obj(<<KV("age", Num(28))>>),
   Obj(<<KV("age", Obj(<<KV("gt", Num(20))>>))>>)}

\* a place for a leaf in the shape of a where tree
Hole == [t |-> "hole"]

RECURSIVE Shapes(_), ShapeSeqs(_, _)

\* the shapes with exactly n leaves whose and/or arrays have 2 or more children
Shapes(n) ==
  IF n = 1 THEN {Hole}
  ELSE {Obj(<<KV(c, Arr(cs))>>) :
          c \in {"and", "or"}, cs \in UNION {ShapeSeqs(n, k) : k \in 2..n}}

\* the sequences of k shapes with n leaves in all
ShapeSeqs(n, k) ==
  IF k = 1 THEN {<<c>> : c \in Shapes(n)}
  ELSE UNION {{<<c>> \o r : c \in Shapes(m), r \in ShapeSeqs(n - m, k - 1)} :
                m \in 1..(n - k + 1)}

RECURSIVE NLeaves(_), NLeavesSeq(_, _)

NLeaves(shape) ==
  IF shape.t = "hole" THEN 1 ELSE NLeavesSeq(shape.e[1].v.a, 1)

NLeavesSeq(cs, i) ==
  IF i > Len(cs) THEN 0 ELSE NLeaves(cs[i]) + NLeavesSeq(cs, i + 1)

RECURSIVE Fill(_, _, _), FillSeq(_, _, _, _)

\* the where tree of the given shape whose leaves are leaves[1], leaves[2], ...
\* from left to right; off leaves lie to the left of this subtree
Fill(shape, leaves, off) ==
  IF shape.t = "hole" THEN leaves[off + 1]
  ELSE Obj(<<KV(shape.e[1].k, Arr(FillSeq(shape.e[1].v.a, leaves, off, 1)))>>)

FillSeq(cs, leaves, off, i) ==
  IF i > Len(cs) THEN << >>
  ELSE <<Fill(cs[i], leaves, off)>> \o FillSeq(cs, leaves, off + NLeaves(cs[i]), i + 1)

TreeShapes == UNION {Shapes(n) : n \in 2..MaxLeaves}

----------------------------------------------------------------------------
(* One call spLib.buildWhere(lbWhere) *)

\* builders that have served no call
NewBuilders == log = << >> /\ camlDebug = << >>

\* no call is made on the connector
NoConnectorCall ==
  /\ skip = Undef /\ dataArg = Undef /\ lbFilter = Undef
  /\ spList = << >>
  /\ handler = ""
  /\ originalFields = Undef /\ originalLimit = Undef
  /\ affectedRows = 0
  /\ request = Undef /\ settled = Undef
  /\ batch = << >>
  /\ callbacks = << >>

\* a where tree with and/or nodes
Init ==
  /\ \E shape \in TreeShapes : \E leaves \in [1..NLeaves(shape) -> TreeLeaves] :
       lbWhere = Fill(shape, leaves, 0)
  /\ model = ModelProperties
  /\ property = Undef /\ order = Undef /\ fields = Undef /\ limit = Undef
  /\ call = ""
  /\ pc = "ready"
  /\ ret = Undef
  /\ NewBuilders
  /\ NoConnectorCall

\* a single comparison
InitLeaf ==
  /\ lbWhere \in LeafClauses
  /\ model = ModelProperties
  /\ property = Undef /\ order = Undef /\ fields = Undef /\ limit = Undef
  /\ call = ""
  /\ pc = "ready"
  /\ ret = Undef
  /\ NewBuilders
  /\ NoConnectorCall

BuildWhere ==
  /\ pc = "ready"
  /\ call' = "buildWhere"
  /\ ret' = buildWhere(lbWhere)
  /\ pc' = "done"
  /\ UNCHANGED <<args, builders, connector>>

Next == BuildWhere

Spec == Init /\ [][Next]_vars

SpecLeaf == InitLeaf /\ [][Next]_vars

----------------------------------------------------------------------------
(* Reading where trees and documents *)

IsLogical(clause) ==
  /\ clause.t = "obj"
  /\ Len(clause.e) = 1
  /\ clause.e[1].k \in {"and", "or"}
  /\ clause.e[1].v.t = "arr"

Children(clause) == clause.e[1].v.a

RECURSIVE InputLeaves(_), InputLeavesSeq(_, _)

\* the leaf comparisons of a where tree, from left to right
InputLeaves(clause) ==
  IF IsLogical(clause) THEN InputLeavesSeq(Children(clause), 1) ELSE <<clause>>

InputLeavesSeq(cs, i) ==
  IF i > Len(cs) THEN << >> ELSE InputLeaves(cs[i]) \o InputLeavesSeq(cs, i + 1)

\* the element a leaf comparison compiles to on its own
LeafElement(leaf) == buildObject(_buildCamlExpression(leaf))

LogicalTags == {"And", "Or"}

RECURSIVE OutputLeaves(_), OutputLeavesSeq(_, _)

\* the comparison elements of a document, from left to right
OutputLeaves(node) ==
  IF node.t = "txt" THEN << >>
  ELSE IF node.tag \in LogicalTags \cup {"Where"} THEN OutputLeavesSeq(node.kids, 1)
  ELSE <<node>>

OutputLeavesSeq(kids, i) ==
  IF i > Len(kids) THEN << >> ELSE OutputLeaves(kids[i]) \o OutputLeavesSeq(kids, i + 1)

RECURSIVE Elements(_), ElementsSeq(_, _)

\* all the elements of a document
Elements(node) ==
  IF node.t = "txt" THEN {} ELSE {node} \cup ElementsSeq(node.kids, 1)

ElementsSeq(kids, i) ==
  IF i > Len(kids) THEN {} ELSE Elements(kids[i]) \cup ElementsSeq(kids, i + 1)

Count(x, seq) == Cardinality({i \in 1..Len(seq) : seq[i] = x})

SameBag(s1, s2) ==
  /\ Len(s1) = Len(s2)
  /\ \A i \in 1..Len(s1) : Count(s1[i], s1) = Count(s1[i], s2)

RECURSIVE RightNest(_, _)

\* C(d1, C(d2, ... C(d(n-1), dn)))
RightNest(tag, ds) ==
  IF Len(ds) = 2 THEN [El(tag) EXCEPT !.kids = ds]
  ELSE [El(tag) EXCEPT !.kids = <<Head(ds), RightNest(tag, Tail(ds))>>]

Returned == pc = "done" /\ ret.t = "xml"

\* a flat tree: one and/or node whose children are all leaf comparisons
IsFlat(clause) ==
  IsLogical(clause) /\ \A i \in 1..Len(Children(clause)) : ~IsLogical(Children(clause)[i])

----------------------------------------------------------------------------
(* Claims about the logical structure of the Where document (Spec) *)

\* C1: in the document buildWhere returns for a where tree whose and/or nodes
\* each have at least 2 children, every And and every Or element has exactly
\* 2 child elements.
C1_LogicalNodesBinary ==
  Returned => \A el \in Elements(ret.doc) : el.tag \in LogicalTags => Len(el.kids) = 2

\* C2: n >= 2 sibling comparisons c1..cn under one connective C compile to n-1
\* nested C elements leaning right, C(c1, C(c2, ... C(c(n-1), cn))).
C2_RightLeaningNest ==
  (pc = "done" /\ IsFlat(lbWhere)) =>
     /\ ret.t = "xml"
     /\ ret.doc.kids =
          <<RightNest(PropKey(getCamlName(lbWhere.e[1].k)),
                      [i \in 1..Len(Children(lbWhere)) |-> LeafElement(Children(lbWhere)[i])])>>

\* C3: the comparisons appear in the document in the left-to-right order of
\* the input; stated for the documents that hold every input comparison, so
\* that only the order is in question.
C3_OrderPreserved ==
  (Returned /\ SameBag(OutputLeaves(ret.doc),
                       [i \in 1..Len(InputLeaves(lbWhere)) |-> LeafElement(InputLeaves(lbWhere)[i])]))
    => OutputLeaves(ret.doc) =
         [i \in 1..Len(InputLeaves(lbWhere)) |-> LeafElement(InputLeaves(lbWhere)[i])]

HasNestedLogical(clause) ==
  IsLogical(clause) /\ \E i \in 1..Len(Children(clause)) : IsLogical(Children(clause)[i])

\* C4: when children of a logical node are logical nodes themselves, the
\* document holds, for each such child, the element the child compiles to on
\* its own, and holds every leaf comparison of the input exactly once.
C4_NestedChildrenIntact ==
  (Returned /\ HasNestedLogical(lbWhere)) =>
     /\ \A i \in 1..Len(Children(lbWhere)) :
          LET child == Children(lbWhere)[i] IN
          (IsLogical(child) /\ buildWhere(child).t = "xml")
            => buildWhere(child).doc.kids[1] \in Elements(ret.doc)
     /\ SameBag(OutputLeaves(ret.doc),
                [i \in 1..Len(InputLeaves(lbWhere)) |-> LeafElement(InputLeaves(lbWhere)[i])])

----------------------------------------------------------------------------
(* Claims about single comparisons (SpecLeaf) *)

LeafField(leaf) == leaf.e[1].k

\* {field: value} with a literal value
IsEqualityClause(leaf) == leaf.e[1].v.t \in {"str", "num", "bool", "date"}

\* {field: {operator: value}}
IsOperatorClause(leaf) == leaf.e[1].v.t = "obj" /\ Len(leaf.e[1].v.e) = 1

LeafOperator(leaf) == leaf.e[1].v.e[1].k

LeafValue(leaf) ==
  IF IsOperatorClause(leaf) THEN leaf.e[1].v.e[1].v ELSE leaf.e[1].v

\* the field resolves: it is a property of the model, or it is "ID"
Resolves(field) == field = "ID" \/ field \in DOMAIN ModelProperties

\* the text a literal is to be written as: booleans as 1 and 0, dates as
\* ISO-8601 strings
LiteralText(v) ==
  CASE v.t = "str" -> v.s
    [] v.t = "num" -> ToString(v.n)
    [] v.t = "bool" -> IF v.b THEN "1" ELSE "0"
    [] v.t = "date" -> v.iso

RECURSIVE ValueElements(_), ValueElementsSeq(_, _)

\* the Value elements of a document, from left to right
ValueElements(node) ==
  IF node.t = "txt" THEN << >>
  ELSE IF node.tag = "Value" THEN <<node>>
  ELSE ValueElementsSeq(node.kids, 1)

ValueElementsSeq(kids, i) ==
  IF i > Len(kids) THEN << >> ELSE ValueElements(kids[i]) \o ValueElementsSeq(kids, i + 1)

\* C5: for {field: value} on a field of the model, buildWhere returns
\* <Where><Eq><FieldRef Name="col"/><Value Type="type">value</Value></Eq></Where>
\* with the resolved column name and CAML type of the field.
C5_EqualityClause ==
  (pc = "done" /\ IsEqualityClause(lbWhere) /\ LeafField(lbWhere) \in DOMAIN ModelProperties) =>
     /\ ret.t = "xml"
     /\ ret.s = "<Where><Eq><FieldRef Name=\"" \o getSPFieldName(LeafField(lbWhere))
                \o "\"/><Value Type=\"" \o getSPFieldType(LeafField(lbWhere)).s \o "\">"
                \o LiteralText(LeafValue(lbWhere)) \o "</Value></Eq></Where>"

OperatorTable ==
  [op \in {"eq", "neq", "gt", "gte", "lt", "lte", "like", "contains"} |->
     CASE op = "eq" -> "Eq"
       [] op = "neq" -> "Neq"
       [] op = "gt" -> "Gt"
       [] op = "gte" -> "Geq"
       [] op = "lt" -> "Lt"
       [] op = "lte" -> "Leq"
       [] op = "like" -> "BeginsWith"
       [] op = "contains" -> "Contains"]

\* C6: the comparison element emitted for a leaf with operator eq, neq, gt,
\* gte, lt, lte, like or contains carries the tag the table gives.
C6_OperatorTags ==
  (Returned /\ IsOperatorClause(lbWhere) /\ LeafOperator(lbWhere) \in DOMAIN OperatorTable) =>
     ret.doc.kids[1].tag = OperatorTable[LeafOperator(lbWhere)]

\* the operators of the filter grammar: the table and the multi-valued ones
GrammarOperators == DOMAIN OperatorTable \cup {"inq", "in", "nin"}

\* C7: a leaf whose operator is not in the mapping table makes buildWhere
\* fail; no document is returned for it.
C7_UnknownOperatorFails ==
  (pc = "done" /\ IsOperatorClause(lbWhere)
     /\ toLower(LeafOperator(lbWhere)) \notin GrammarOperators) =>
     ret.t = "throw"

\* C8: inq or in with a value that is not an array makes buildWhere fail with
\* the invalid-operand error (stated for the fields that resolve).
C8_NonArrayOperandFails ==
  (pc = "done" /\ IsOperatorClause(lbWhere) /\ Resolves(LeafField(lbWhere))
     /\ LeafOperator(lbWhere) \in {"inq", "in"} /\ LeafValue(lbWhere).t # "arr") =>
     /\ ret.t = "throw"
     /\ ret.msg = "Invalid 'in' values. Must be an array."

IsInqOfArray(leaf) ==
  IsOperatorClause(leaf) /\ LeafOperator(leaf) = "inq" /\ LeafValue(leaf).t = "arr"

\* C9: inq with an array of k values on a field that resolves yields one In
\* element holding the FieldRef of the resolved column and a Values element
\* with exactly k Value children, each of the resolved CAML type, in the order
\* of the array.
C9_InqValues ==
  (pc = "done" /\ IsInqOfArray(lbWhere) /\ Resolves(LeafField(lbWhere))) =>
     LET a == LeafValue(lbWhere).a
         type == getSPFieldType(LeafField(lbWhere)).s IN
     /\ ret.t = "xml"
     /\ ret.doc.tag = "Where" /\ Len(ret.doc.kids) = 1
     /\ LET in == ret.doc.kids[1] IN
        /\ in.tag = "In" /\ Len(in.kids) = 2
        /\ in.kids[1] = AddAttr(El("FieldRef"), "Name", getSPFieldName(LeafField(lbWhere)))
        /\ in.kids[2].tag = "Values" /\ in.kids[2].attrs = << >>
        /\ Len(in.kids[2].kids) = Len(a)
        /\ \A i \in 1..Len(a) :
             LET value == in.kids[2].kids[i] IN
             /\ value.tag = "Value"
             /\ value.attrs = <<KV("Type", type)>>
             /\ Len(value.kids) = 1 /\ value.kids[1].t = "txt"
             /\ a[i].t = "num" => value.kids[1].s = ToString(a[i].n)
             /\ \A j \in 1..Len(a) : (a[i] = a[j]) <=> (value = in.kids[2].kids[j])

\* a state in which C9's case has happened: inq over two different values
C9_Witness ==
  /\ pc = "done" /\ IsInqOfArray(lbWhere) /\ Resolves(LeafField(lbWhere))
  /\ Len(LeafValue(lbWhere).a) = 2
  /\ LeafValue(lbWhere).a[1] # LeafValue(lbWhere).a[2]
  /\ ret.t = "xml"
  /\ Len(ValueElements(ret.doc)) = 2

\* the boolean literals of a comparison, in order
BooleanOperands(leaf) ==
  IF LeafValue(leaf).t = "arr" THEN LeafValue(leaf).a ELSE <<LeafValue(leaf)>>

\* C10: in a comparison on a Boolean field, with one value or with several,
\* true is written as the Value text 1 and false as 0, with Type="Boolean".
C10_BooleanText ==
  (Returned /\ LeafField(lbWhere) = "isEmployee"
     /\ (IsEqualityClause(lbWhere) \/ IsOperatorClause(lbWhere))
     /\ \A i \in 1..Len(BooleanOperands(lbWhere)) : BooleanOperands(lbWhere)[i].t = "bool") =>
     ValueElements(ret.doc) =
       [i \in 1..Len(BooleanOperands(lbWhere)) |->
          AddKid(AddAttr(El("Value"), "Type", "Boolean"),
                 Txt(IF BooleanOperands(lbWhere)[i].b THEN "1" ELSE "0"))]

----------------------------------------------------------------------------
(* Where trees over declared and undeclared fields *)

\* an upper bound on the number of leaf comparisons of these trees
MaxFieldLeaves == 5

\* two comparisons on a declared property and one on "middleName", which
\* the model does not declare
FieldLeaves ==
  {Obj(<<KV("age", Num(28))>>),
   Obj(<<KV("age", Obj(<<KV("gt", Num(20))>>))>>),
   Obj(<<KV("middleName", Str("Joe"))>>)}

FieldShapes == UNION {Shapes(n) : n \in 1..MaxFieldLeaves}

InitFieldTree ==
  /\ \E shape \in FieldShapes : \E leaves \in [1..NLeaves(shape) -> FieldLeaves] :
       lbWhere = Fill(shape, leaves, 0)
  /\ model = ModelProperties
  /\ property = Undef /\ order = Undef /\ fields = Undef /\ limit = Undef
  /\ call = ""
  /\ pc = "ready"
  /\ ret = Undef
  /\ NewBuilders
  /\ NoConnectorCall

SpecFieldTree == InitFieldTree /\ [][Next]_vars

\* the where tree has a comparison on a field that is neither declared nor "ID"
HasUnknownField(clause) ==
  \E i \in 1..Len(InputLeaves(clause)) : ~Resolves(LeafField(InputLeaves(clause)[i]))

\* C11: whenever the where tree holds, at any depth, a comparison on a field
\* that is not a property of the model and is not "ID", buildWhere throws the
\* error of getSPFieldType for an undefined property and returns no XML
C11_UnknownFieldFails ==
  (pc = "done" /\ HasUnknownField(lbWhere)) =>
    (IsThrow(ret) /\ ret.msg = "Property is not defined for type")

----------------------------------------------------------------------------
(* One call spLib.getSPFieldType(property) or spLib.getSPFieldName(property) *)
(* on a model that declares one more property, or "ID" itself.             *)

\* type.name of a property definition: the four types of the translation
\* table, another type, and the anonymous model type that the model builder
\* gives a property declared without a type
DeclaredTypes == {"String", "Number", "Boolean", "Date", "Object", "AnonymousModel_0"}

Descriptors ==
  [type : DeclaredTypes, columnName : {"", "Title"}, dataType : {"", "Note"}]

\* the name of the property the model declares in addition to the User model
DeclaredNames == {"title", "ID"}

\* "middleName" is declared by no model
PropertyNames == {"ID", "title", "firstName", "startDate", "middleName"}

InitField ==
  /\ \E name \in DeclaredNames, d \in Descriptors :
       model = [p \in DOMAIN ModelProperties \cup {name} |->
                  IF p = name THEN d ELSE ModelProperties[p]]
  /\ property \in PropertyNames
  /\ lbWhere = Undef /\ order = Undef /\ fields = Undef /\ limit = Undef
  /\ call = ""
  /\ pc = "ready"
  /\ ret = Undef
  /\ NewBuilders
  /\ NoConnectorCall

GetSPFieldType ==
  /\ pc = "ready"
  /\ call' = "getSPFieldType"
  /\ ret' = getSPFieldType(property)
  /\ pc' = "done"
  /\ UNCHANGED <<args, builders, connector>>

GetSPFieldName ==
  /\ pc = "ready"
  /\ call' = "getSPFieldName"
  /\ ret' = Str(getSPFieldName(property))
  /\ pc' = "done"
  /\ UNCHANGED <<args, builders, connector>>

NextFieldType == GetSPFieldType

NextFieldName == GetSPFieldName

SpecFieldType == InitField /\ [][NextFieldType]_vars

SpecFieldName == InitField /\ [][NextFieldName]_vars

\* the translation table of declared types
DefaultTypeTable ==
  [ty \in DeclaredTypes |->
     CASE ty = "String" -> "Text"
       [] ty = "Number" -> "Number"
       [] ty = "Boolean" -> "Boolean"
       [] ty = "Date" -> "DateTime"
       [] OTHER -> "Text"]

\* C12: getSPFieldType returns Number for "ID" whatever the model declares
\* for it; for another declared property it returns sharepoint.dataType
\* when there is one, and otherwise the translation of the declared type:
\* string to Text, number to Number, boolean to Boolean, date to DateTime
\* and any other type to Text
C12_FieldTypeReference ==
  pc = "done" =>
    /\ property = "ID" => ret = Str("Number")
    /\ (property # "ID" /\ property \in DOMAIN model) =>
         ret = Str(IF model[property].dataType # ""
                   THEN model[property].dataType
                   ELSE DefaultTypeTable[model[property].type])

\* "ID" is declared as a Date with the override Note and is still a Number
C12_Witness ==
  /\ pc = "done"
  /\ property = "ID"
  /\ "ID" \in DOMAIN model
  /\ model["ID"].type = "Date"
  /\ model["ID"].dataType = "Note"
  /\ ret = Str("Number")

\* C13: getSPFieldName never throws; it returns sharepoint.columnName of the
\* property when the model declares one and the name itself otherwise, also
\* for a name the model does not declare
C13_FieldNameReference ==
  pc = "done" =>
    /\ ~IsThrow(ret)
    /\ ret = Str(IF property \in DOMAIN model /\ model[property].columnName # ""
                 THEN model[property].columnName
                 ELSE property)

\* the column name declared for "title" has been returned
C13_Witness ==
  /\ pc = "done"
  /\ property = "title"
  /\ "title" \in DOMAIN model
  /\ model["title"].columnName = "Title"
  /\ ret = Str("Title")

----------------------------------------------------------------------------
(* Where trees with clause objects of more than one key *)

\* two comparisons and a clause object with two keys
ClauseLeaves ==
  {Obj(<<KV("age", Num(28))>>),
   Obj(<<KV("age", Obj(<<KV("gt", Num(20))>>))>>),
   Obj(<<KV("firstName", Str("Joe")), KV("age", Num(28))>>)}

InitClauseTree ==
  /\ \E shape \in FieldShapes : \E leaves \in [1..NLeaves(shape) -> ClauseLeaves] :
       lbWhere = Fill(shape, leaves, 0)
  /\ model = ModelProperties
  /\ property = Undef /\ order = Undef /\ fields = Undef /\ limit = Undef
  /\ call = ""
  /\ pc = "ready"
  /\ ret = Undef
  /\ NewBuilders
  /\ NoConnectorCall

SpecClauseTree == InitClauseTree /\ [][Next]_vars

\* the where tree is, or holds at some depth, a clause object with several keys
HasMultiKeyClause(clause) ==
  \E i \in 1..Len(InputLeaves(clause)) : Len(InputLeaves(clause)[i].e) > 1

\* the errors thrown for a clause that is not of the form {key: value}
MalformedClauseErrors ==
  {"Invalid 'where' clause. It must be in {key: value} format.", "Invalid expression"}

\* C14: whenever the where tree is, or holds at any depth, a clause object
\* with more than one key, buildWhere throws the error for a malformed clause
\* and returns no XML
C14_MultiKeyClauseFails ==
  (pc = "done" /\ HasMultiKeyClause(lbWhere)) =>
    (IsThrow(ret) /\ ret.msg \in MalformedClauseErrors)

----------------------------------------------------------------------------
(* One call spLib.buildOrderBy(order) *)

\* an upper bound on the number of elements of an order array
MaxOrder == 2

\* "middleName" is not a property of the model
OrderNames == {"firstName", "ID", "middleName"}

AscendingKeywords == {"ASC", "asc", "Asc"}

DescendingKeywords == {"DESC", "desc", "dEsC"}

\* a name alone, and a name with a direction keyword
OrderTerms ==
  [name : OrderNames, direction : {"-"} \cup AscendingKeywords \cup DescendingKeywords]

TermString(term) ==
  IF term.direction = "-" THEN term.name ELSE term.name \o " " \o term.direction

\* the order clauses the filter grammar allows
ValidClauses == {TermString(term) : term \in OrderTerms}

\* clauses with a direction that is neither ASC nor DESC
WrongDirectionClauses == {name \o " WRONG" : name \in OrderNames}

\* clauses of three parts
ThreePartClauses == {name \o " ASC NULLS" : name \in OrderNames}

OrderClauses == ValidClauses \cup WrongDirectionClauses \cup ThreePartClauses

\* values given as order that are neither strings nor arrays
OtherOrderValues ==
  {Num(5), Bool(TRUE), Obj(<< >>), Obj(<<KV("foo", Str("bar"))>>),
   DateV("2019-01-01T05:00:00.000Z")}

OrderElements == {Str(c) : c \in OrderClauses} \cup {Num(5), Undef}

OrderInputs ==
  {Undef, Null, Str("")}
  \cup {Str(c) : c \in OrderClauses}
  \cup OtherOrderValues
  \cup {Arr(a) : a \in UNION {[1..n -> OrderElements] : n \in 0..MaxOrder}}

InitOrder ==
  /\ order \in OrderInputs
  /\ model = ModelProperties
  /\ lbWhere = Undef /\ property = Undef /\ fields = Undef /\ limit = Undef
  /\ call = ""
  /\ pc = "ready"
  /\ ret = Undef
  /\ NewBuilders
  /\ NoConnectorCall

BuildOrderBy ==
  /\ pc = "ready"
  /\ call' = "buildOrderBy"
  /\ ret' = buildOrderBy(order)
  /\ pc' = "done"
  /\ UNCHANGED <<args, builders, connector>>

NextOrder == BuildOrderBy

SpecOrder == InitOrder /\ [][NextOrder]_vars

----------------------------------------------------------------------------
(* Claims about buildOrderBy *)

\* the order clauses of the input: the string itself, or the elements of
\* the array
ClausesOf(v) == IF v.t = "arr" THEN v.a ELSE <<v>>

IsValidClause(v) == v.t = "str" /\ v.s \in ValidClauses

TermOf(v) == CHOOSE term \in OrderTerms : TermString(term) = v.s

\* the FieldRef element the grammar prescribes for a clause
ExpectedFieldRef(term) ==
  LET named == AddAttr(El("FieldRef"), "Name", getSPFieldName(term.name)) IN
  IF term.direction \in AscendingKeywords THEN AddAttr(named, "Ascending", "TRUE")
  ELSE IF term.direction \in DescendingKeywords THEN AddAttr(named, "Ascending", "FALSE")
  ELSE named

\* C16: for an order that is one valid clause, or a sequence of valid
\* clauses, buildOrderBy returns an OrderBy element with one FieldRef per
\* clause in the order of the input, named by the column of the property,
\* without Ascending for a name alone, with Ascending="TRUE" for ASC and
\* Ascending="FALSE" for DESC in any letter case
C16_OrderClauses ==
  (/\ pc = "done"
   /\ order.t \in {"str", "arr"}
   /\ ~isEmpty(order)
   /\ \A i \in 1..Len(ClausesOf(order)) : IsValidClause(ClausesOf(order)[i])) =>
    /\ ret.t = "xml"
    /\ ret.doc.t = "el"
    /\ ret.doc.tag = "OrderBy"
    /\ ret.doc.attrs = << >>
    /\ ret.doc.kids = [i \in 1..Len(ClausesOf(order)) |->
                         ExpectedFieldRef(TermOf(ClausesOf(order)[i]))]

\* a name alone followed by a descending clause in mixed case
C16_Witness ==
  /\ pc = "done"
  /\ order = Arr(<<Str("middleName"), Str("firstName dEsC")>>)
  /\ ret.t = "xml"
  /\ ret.s = "<OrderBy><FieldRef Name=\"middleName\"/><FieldRef Name=\"FirstName\" Ascending=\"FALSE\"/></OrderBy>"

\* the errors thrown for an order clause
InvalidOrderErrors ==
  {"Invalid order direction. Must be either ASC or DESC",
   "Invalid order expression. Must be a string."}

IsInvalidClause(v) ==
  v.t = "str" /\ v.s \in WrongDirectionClauses \cup ThreePartClauses

\* C17: for an order that is a string, or a sequence of strings, with a
\* clause of three parts or a clause whose direction is neither ASC nor
\* DESC, buildOrderBy throws an invalid-order error and returns no XML
C17_InvalidClauseFails ==
  (/\ pc = "done"
   /\ order.t \in {"str", "arr"}
   /\ \A i \in 1..Len(ClausesOf(order)) : ClausesOf(order)[i].t = "str"
   /\ \E j \in 1..Len(ClausesOf(order)) : IsInvalidClause(ClausesOf(order)[j])) =>
    (IsThrow(ret) /\ ret.msg \in InvalidOrderErrors)

\* C18: for an order that is present and is neither a string nor a
\* sequence, and for a sequence with an element that is not a string (its
\* strings being valid clauses), buildOrderBy throws 'Invalid order
\* expression. Must be a string.'
C18_NonStringFails ==
  (/\ pc = "done"
   /\ \/ order.t \notin {"undef", "null", "str", "arr"}
      \/ /\ order.t = "arr"
         /\ \E i \in 1..Len(order.a) : order.a[i].t # "str"
         /\ \A j \in 1..Len(order.a) : order.a[j].t = "str" => IsValidClause(order.a[j])) =>
    ret = Throw("Invalid order expression. Must be a string.")

----------------------------------------------------------------------------
(* One call spLib.buildRowLimit(limit) *)

\* an upper bound on the absolute value of a limit
MaxLimit == 12

LimitNumbers == (0 - MaxLimit)..MaxLimit

\* absent limits, numbers, and strings with and without a number to read
LimitInputs ==
  {Undef, Null, Str(""), Str("abc"), Str("-"), Bool(TRUE)}
  \cup {Num(n) : n \in LimitNumbers}
  \cup {Str(ToString(n)) : n \in LimitNumbers}
  \cup {Str(" " \o ToString(n)) : n \in LimitNumbers}

InitLimit ==
  /\ limit \in LimitInputs
  /\ model = ModelProperties
  /\ lbWhere = Undef /\ property = Undef /\ order = Undef /\ fields = Undef
  /\ call = ""
  /\ pc = "ready"
  /\ ret = Undef
  /\ NewBuilders
  /\ NoConnectorCall

BuildRowLimit ==
  /\ pc = "ready"
  /\ call' = "buildRowLimit"
  /\ ret' = buildRowLimit(limit)
  /\ pc' = "done"
  /\ UNCHANGED <<args, builders, connector>>

NextLimit == BuildRowLimit

SpecLimit == InitLimit /\ [][NextLimit]_vars

\* the limit is the number n, or a string that reads as n
CoercesTo(v, n) ==
  \/ v = Num(n)
  \/ v = Str(ToString(n))
  \/ v = Str(" " \o ToString(n))

\* C19: buildRowLimit returns <RowLimit>n</RowLimit> when the limit coerces
\* to a positive integer n, and the empty string, without an error, for every
\* other limit: absent, unreadable, zero or negative
C19_RowLimit ==
  pc = "done" =>
    IF \E n \in 1..MaxLimit : CoercesTo(limit, n)
    THEN LET n == CHOOSE n \in 1..MaxLimit : CoercesTo(limit, n) IN
         ret.t = "xml" /\ ret.s = "<RowLimit>" \o ToString(n) \o "</RowLimit>"
    ELSE ret.t = "xml" /\ ret.s = ""

----------------------------------------------------------------------------
(* One call spLib.buildQuery(filter) or spLib.buildOrderBy(filter.order)   *)

QueryFields ==
  {Undef, Arr(<< >>), Arr(<<Str("firstName")>>), Arr(<<Str("firstName"), Str("lastName")>>)}

\* no where, an empty one, a comparison, a conjunction, and a comparison on
\* a field the model does not declare
QueryWheres ==
  {Undef, Obj(<< >>),
   Obj(<<KV("firstName", Str("Joe"))>>),
   Obj(<<KV("and", Arr(<<Obj(<<KV("firstName", Str("Joe"))>>),
                         Obj(<<KV("age", Obj(<<KV("gt", Num(20))>>))>>)>>))>>),
   Obj(<<KV("middleName", Str("Joe"))>>)}

QueryOrders ==
  {Undef, Null, Str(""), Arr(<< >>), Obj(<< >>),
   Str("firstName"), Str("firstName DESC"),
   Arr(<<Str("lastName"), Str("firstName asc")>>),
   Str("firstName WRONG"),
   Arr(<<Str("firstName ASC NULLS")>>)}

QueryLimits == {Undef, Null, Num(0), Num(10), Str("10"), Num(-5)}

\* the filter object of the call
Filter == [fields |-> fields, where |-> lbWhere, order |-> order, limit |-> limit]

InitQuery ==
  /\ fields \in QueryFields
  /\ lbWhere \in QueryWheres
  /\ order \in QueryOrders
  /\ limit \in QueryLimits
  /\ model = ModelProperties
  /\ property = Undef
  /\ call = ""
  /\ pc = "ready"
  /\ ret = Undef
  /\ NewBuilders
  /\ NoConnectorCall

BuildQuery ==
  /\ pc = "ready"
  /\ call' = "buildQuery"
  /\ ret' = buildQuery(Filter)
  /\ pc' = "done"
  /\ UNCHANGED <<args, builders, connector>>

NextQuery == BuildQuery \/ BuildOrderBy

SpecQuery == InitQuery /\ [][NextQuery]_vars

\* sub occurs in s
Contains(s, sub) ==
  \E i \in 1..(Len(s) - Len(sub) + 1) : SubSeq(s, i, i + Len(sub) - 1) = sub

\* undefined, null, or a string, array or object with nothing in it
IsAbsentOrEmpty(v) ==
  \/ v.t \in {"undef", "null"}
  \/ v.t = "str" /\ v.s = ""
  \/ v.t = "arr" /\ v.a = << >>
  \/ v.t = "obj" /\ v.e = << >>

\* C15: for an absent or empty order buildOrderBy returns exactly
\* <OrderBy><FieldRef Name="ID" Ascending="False"/></OrderBy>, and every
\* document that buildQuery returns contains an OrderBy element
C15_DefaultOrderBy ==
  /\ (pc = "done" /\ call = "buildOrderBy" /\ IsAbsentOrEmpty(order)) =>
       (ret.t = "xml" /\ ret.s = "<OrderBy><FieldRef Name=\"ID\" Ascending=\"False\"/></OrderBy>")
  /\ (pc = "done" /\ call = "buildQuery" /\ ~IsThrow(ret)) =>
       Contains(Get(ret, "ViewXml").s, "<OrderBy")

\* buildQuery has written the default OrderBy for a filter without order
C15_Witness ==
  /\ pc = "done"
  /\ call = "buildQuery"
  /\ order = Undef
  /\ ~IsThrow(ret)
  /\ Contains(Get(ret, "ViewXml").s,
              "<Query><OrderBy><FieldRef Name=\"ID\" Ascending=\"False\"/></OrderBy></Query>")

\* C20: when buildQuery returns, ViewXml is <View>, the ViewFields fragment,
\* <Query>, the Where fragment, the OrderBy fragment, </Query>, the RowLimit
\* fragment and </View> in this order, and the ViewFields, Where and RowLimit
\* fragments are the empty string for absent or empty fields, where and limit
C20_ViewXmlShape ==
  (pc = "done" /\ call = "buildQuery" /\ ~IsThrow(ret)) =>
    LET viewFieldsFragment ==
          IF IsAbsentOrEmpty(fields) THEN "" ELSE buildViewFields(fields).s
        whereFragment ==
          IF IsAbsentOrEmpty(lbWhere) THEN "" ELSE buildWhere(lbWhere).s
        rowLimitFragment ==
          IF IsAbsentOrEmpty(limit) THEN "" ELSE buildRowLimit(limit).s IN
    ret = Obj(<<KV("ViewXml",
                   Str("<View>" \o viewFieldsFragment
                       \o "<Query>" \o whereFragment \o buildOrderBy(order).s \o "</Query>"
                       \o rowLimitFragment \o "</View>"))>>)

\* a filter with fields, where, order and limit
C20_Witness ==
  /\ pc = "done"
  /\ call = "buildQuery"
  /\ fields = Arr(<<Str("firstName")>>)
  /\ lbWhere = Obj(<<KV("firstName", Str("Joe"))>>)
  /\ order = Str("firstName DESC")
  /\ limit = Num(10)
  /\ ret = Obj(<<KV("ViewXml", Str("<View><ViewFields><FieldRef Name=\"FirstName\"/></ViewFields><Query><Where><Eq><FieldRef Name=\"FirstName\"/><Value Type=\"Text\">Joe</Value></Eq></Where><OrderBy><FieldRef Name=\"FirstName\" Ascending=\"FALSE\"/></OrderBy></Query><RowLimit>10</RowLimit></View>"))>>)

----------------------------------------------------------------------------
(* One call spLib.buildViewFields(fields) *)

\* an upper bound on the number of field names of a fields array
MaxFields == 3

\* "middleName" is not a property of the model and "nickname" declares no
\* column name
ViewFieldNames == {"firstName", "lastName", "ID", "nickname", "middleName"}

ViewFieldsInputs ==
  {Undef, Null}
  \cup {Arr([i \in 1..n |-> Str(names[i])]) :
          n \in 0..MaxFields, names \in [1..MaxFields -> ViewFieldNames]}

InitViewFields ==
  /\ fields \in ViewFieldsInputs
  /\ model = ModelProperties
  /\ lbWhere = Undef /\ property = Undef /\ order = Undef /\ limit = Undef
  /\ call = ""
  /\ pc = "ready"
  /\ ret = Undef
  /\ NewBuilders
  /\ NoConnectorCall

BuildViewFields ==
  /\ pc = "ready"
  /\ call' = "buildViewFields"
  /\ ret' = buildViewFields(fields)
  /\ pc' = "done"
  /\ UNCHANGED <<args, builders, connector>>

NextViewFields == BuildViewFields

SpecViewFields == InitViewFields /\ [][NextViewFields]_vars

\* the column the model declares for a property, the name itself otherwise
ColumnOf(name) ==
  IF name \in DOMAIN model /\ model[name].columnName # ""
  THEN model[name].columnName
  ELSE name

\* C21: for a non-empty sequence of field names buildViewFields returns one
\* ViewFields element with exactly one FieldRef per field, in the order of
\* the input, each named by the column of the field; for an absent or empty
\* list it returns the empty string
C21_ViewFields ==
  pc = "done" =>
    IF IsAbsentOrEmpty(fields)
    THEN ret.t = "xml" /\ ret.s = ""
    ELSE /\ ret.t = "xml"
         /\ ret.doc.t = "el"
         /\ ret.doc.tag = "ViewFields"
         /\ ret.doc.attrs = << >>
         /\ ret.doc.kids = [i \in 1..Len(fields.a) |->
                              AddAttr(El("FieldRef"), "Name", ColumnOf(fields.a[i].s))]

\* the fields of the test at line 94, and their document
C21_Witness ==
  /\ pc = "done"
  /\ fields = Arr(<<Str("firstName"), Str("lastName")>>)
  /\ ret.t = "xml"
  /\ ret.s = "<ViewFields><FieldRef Name=\"FirstName\"/><FieldRef Name=\"LastName\"/></ViewFields>"

----------------------------------------------------------------------------
(* Where trees with an and/or array of fewer than two children *)

\* a short node (an and/or node with no child or with one comparison as its
\* only child), alone or as the last or the first child of another node
ShortTrees ==
  LET ShortNodes ==
        {Obj(<<KV(c, Arr(<< >>))>>) : c \in {"and", "or"}}
        \cup {Obj(<<KV(c, Arr(<<leaf>>))>>) : c \in {"and", "or"}, leaf \in TreeLeaves}
      LeavesBefore == UNION {[1..n -> TreeLeaves] : n \in 0..2} IN
  ShortNodes
  \cup {Obj(<<KV(c, Arr(before \o <<node>>))>>) :
          c \in {"and", "or"}, before \in LeavesBefore, node \in ShortNodes}
  \cup {Obj(<<KV(c, Arr(<<node, leaf>>))>>) :
          c \in {"and", "or"}, node \in ShortNodes, leaf \in TreeLeaves}

InitShortTree ==
  /\ lbWhere \in ShortTrees
  /\ model = ModelProperties
  /\ property = Undef /\ order = Undef /\ fields = Undef /\ limit = Undef
  /\ call = ""
  /\ pc = "ready"
  /\ ret = Undef
  /\ NewBuilders
  /\ NoConnectorCall

SpecShortTree == InitShortTree /\ [][Next]_vars

RECURSIVE HasShortNode(_)
\* the where tree is, or holds at some depth, an and/or node whose array has
\* fewer than 2 children
HasShortNode(clause) ==
  /\ IsLogical(clause)
  /\ \/ Len(Children(clause)) < 2
     \/ \E i \in 1..Len(Children(clause)) : HasShortNode(Children(clause)[i])

\* C29: whenever the where tree holds an and/or node whose array has fewer
\* than 2 children, buildWhere throws an error and returns no document
C29_ShortNodeFails ==
  (pc = "done" /\ HasShortNode(lbWhere)) => IsThrow(ret)

----------------------------------------------------------------------------
(* CamlBuilder of src/lib/caml-builder.js.  _buildWhere shifts the         *)
(* elements off the array it walks and writes into the camlClause it is    *)
(* given; it is modelled by what it returns together with the two objects  *)
(* as the call leaves them.                                                *)

\* the function getCamlName of caml-builder.js: Str(name), or Undef when
\* the switch has no case for the name
CamlBuilder_getCamlName(lbName) ==
  CASE toLower(lbName) = "and" -> Str("And")
    [] toLower(lbName) = "or" -> Str("Or")
    [] toLower(lbName) = "eq" -> Str("Eq")
    [] toLower(lbName) \in {"neq", "gt", "gte", "lt", "lte", "inc", "nin"} -> Str("")
    [] toLower(lbName) = "in" -> Str("In")
    [] toLower(lbName) = "like" -> Str("BeginsWith")
    [] toLower(lbName) = "contains" -> Str("Contains")
    [] OTHER -> Undef

\* parseExpression (lines 162-184: the operator defaults to 'eq'),
\* getSPFieldType (lines 150-153: no declared dataType and no type name
\* makes lsType.toLowerCase() a TypeError) and the object of lines 123-143
CamlBuilder__buildCamlExpression(expression) ==
  LET parsed == parseExpression(expression) IN
  IF IsThrow(parsed) THEN parsed
  ELSE LET field == parsed.field
           operator == IF isObject(Get(expression, field)) THEN parsed.operator ELSE "eq"
           value == parsed.value
           fieldType ==
             IF field \in DOMAIN model /\ model[field].dataType # ""
             THEN Str(model[field].dataType)
             ELSE IF field \notin DOMAIN model
                  THEN Throw("Cannot read property 'toLowerCase' of undefined")
                  ELSE CASE toLower(model[field].type) = "string" -> Str("Text")
                         [] toLower(model[field].type) = "number" -> Str("Integer")
                         [] toLower(model[field].type) = "boolean" -> Str("Boolean")
                         [] toLower(model[field].type) = "date" -> Str("DateTime")
                         [] OTHER -> Str("Text") IN
       IF IsThrow(fieldType) THEN fieldType
       ELSE IF operator = "in"
            THEN IF value.t # "arr" THEN Throw("Invalid 'in' values. Must be an array.")
                 ELSE Obj(<<KV(PropKey(CamlBuilder_getCamlName(operator)),
                               Obj(<<KV("FieldRef", FieldRef(getSPFieldName(field))),
                                     KV("Values",
                                        Arr([i \in 1..Len(value.a) |->
                                               Obj(<<KV("Value",
                                                        TypedValue(value.a[i], fieldType.s))>>)]))>>))>>)
            ELSE Obj(<<KV(PropKey(CamlBuilder_getCamlName(operator)),
                          Obj(<<KV("FieldRef", FieldRef(field)),
                                KV("Value", TypedValue(value, fieldType.s))>>))>>)

RECURSIVE CamlBuilder__buildWhere(_, _, _)
\* returns [ret: what the call returns or throws,
\*          caml: the object `camlClause` names after line 91, as the call leaves it,
\*          clause: lbClause as the call leaves it,
\*          debug: what the call and the calls it makes push on camlDebug]
CamlBuilder__buildWhere(lbClause, camlClauseArg, wrapElement) ==
  LET camlClause == IF camlClauseArg.t = "undef" THEN Obj(<< >>) ELSE camlClauseArg
      keys == ObjectKeys(lbClause)
      isLogical(expression) ==
        /\ isObject(expression)
        /\ Len(ObjectKeys(expression)) = 1
        /\ ObjectKeys(expression)[1] \in {"and", "or"}
        /\ Get(expression, ObjectKeys(expression)[1]).t = "arr"
      Out(r, c, l, d) ==
        [ret |-> r, caml |-> c, clause |-> l, debug |-> <<camlClauseArg>> \o d] IN
  IF lbClause.t # "arr"
  THEN IF Len(keys) = 0 THEN Out(Obj(<< >>), camlClause, lbClause, << >>)
       ELSE IF Len(keys) = 1
            THEN LET value == Get(lbClause, keys[1]) IN
                 IF keys[1] = "or" \/ keys[1] = "and" \/ value.t = "arr"
                 THEN LET walked == CamlBuilder__buildWhere(value, camlClause,
                                                            CamlBuilder_getCamlName(keys[1])) IN
                      Out(IF IsThrow(walked.ret) THEN walked.ret ELSE walked.caml,
                          walked.caml, Put(lbClause, keys[1], walked.clause), walked.debug)
                 ELSE LET caml == CamlBuilder__buildCamlExpression(lbClause) IN
                      Out(caml, camlClause, lbClause, << >>)
            ELSE Out(camlClause, camlClause, lbClause, << >>)
  ELSE IF Len(lbClause.a) > 0 /\ wrapElement.t = "str" /\ wrapElement.s # ""
       THEN LET expression == Head(lbClause.a)
                shifted == Arr(Tail(lbClause.a))
                first == IF isLogical(expression)
                         THEN CamlBuilder__buildWhere(expression, camlClause, Undef)
                         ELSE [ret |-> CamlBuilder__buildCamlExpression(expression),
                               debug |-> << >>] IN
            IF IsThrow(first.ret) THEN Out(first.ret, camlClause, shifted, first.debug)
            ELSE LET rest == CamlBuilder__buildWhere(shifted, first.ret, wrapElement)
                     written == Put(camlClause, wrapElement.s, rest.caml) IN
                 Out(IF IsThrow(rest.ret) THEN rest.ret ELSE written,
                     written, rest.clause, first.debug \o rest.debug)
       ELSE Out(camlClause, camlClause, lbClause, << >>)

\* CamlBuilder.buildWhere with _buildWhere run on the caller's own tree
CamlBuilder_buildWhere_noClone(where) ==
  IF isEmpty(where) THEN [ret |-> Undef, where |-> where, debug |-> << >>]
  ELSE LET built == CamlBuilder__buildWhere(where, Undef, Undef) IN
       [ret |-> IF IsThrow(built.ret) THEN built.ret ELSE Xml(buildObject(built.ret)),
        where |-> built.clause,
        debug |-> built.debug]

\* returns [ret: undefined, the string or a Throw,
\*          where: the caller's tree as the call leaves it,
\*          debug: what the call pushes on this.camlDebug];
\* _buildWhere walks _where, the deep copy of line 83, so what it shifts
\* off is lost to the copy
CamlBuilder_buildWhere(where) ==
  IF isEmpty(where) THEN [ret |-> Undef, where |-> where, debug |-> << >>]
  ELSE LET _where == where IN
       CHOOSE r \in {[ret |-> IF IsThrow(built.ret) THEN built.ret
                              ELSE Xml(buildObject(built.ret)),
                      where |-> where,
                      debug |-> built.debug] :
                      built \in {CamlBuilder__buildWhere(_where, Undef, Undef)}} : TRUE

----------------------------------------------------------------------------
(* One where tree handed to an SPLib, call after call, and to a CamlBuilder *)

MaxBuilderLeaves == 3

MaxCalls == 3

MaxDebug == 12

\* the tree is built of comparisons both builders translate and of one on
\* an undeclared field
InitBuilders ==
  /\ LET BuilderLeaves == {Obj(<<KV("firstName", Str("Joe"))>>),
                           Obj(<<KV("age", Num(28))>>),
                           Obj(<<KV("middleName", Str("Joe"))>>)} IN
     \E shape \in UNION {Shapes(n) : n \in 1..MaxBuilderLeaves} :
       \E leaves \in [1..NLeaves(shape) -> BuilderLeaves] :
         lbWhere = Fill(shape, leaves, 0)
  /\ order \in {Undef, Str("firstName DESC")}
  /\ fields = Arr(<<Str("firstName")>>)
  /\ limit = Num(10)
  /\ model = ModelProperties
  /\ property = Undef
  /\ call = ""
  /\ pc = "ready"
  /\ ret = Undef
  /\ NewBuilders
  /\ NoConnectorCall

\* a buildWhere that shifts the first child off the array of the root node
SPLibBuildWhere_shifting ==
  /\ Len(log) < MaxCalls
  /\ call' = "buildWhere"
  /\ ret' = buildWhere(lbWhere)
  /\ log' = Append(log, ret')
  /\ pc' = "done"
  /\ lbWhere' = IF lbWhere.t = "obj" /\ Len(lbWhere.e) = 1 /\ lbWhere.e[1].v.t = "arr"
               THEN Obj(<<KV(lbWhere.e[1].k, Arr(Tail(lbWhere.e[1].v.a)))>>)
               ELSE lbWhere
  /\ UNCHANGED <<model, property, order, fields, limit, camlDebug, connector>>

\* spLib.buildWhere(lbWhere): the tree is read by index (lines 116, 117 and
\* 125) and nothing is assigned to it or to a field of the SPLib
SPLibBuildWhere ==
  /\ Len(log) < MaxCalls
  /\ call' = "buildWhere"
  /\ ret' = buildWhere(lbWhere)
  /\ log' = Append(log, ret')
  /\ pc' = "done"
  /\ UNCHANGED <<args, camlDebug, connector>>

\* one of the other build calls on the same SPLib
SPLibBuild ==
  /\ \E method \in {"buildOrderBy", "buildViewFields", "buildRowLimit", "buildQuery"} :
       /\ call' = method
       /\ ret' = CASE method = "buildOrderBy" -> buildOrderBy(order)
                   [] method = "buildViewFields" -> buildViewFields(fields)
                   [] method = "buildRowLimit" -> buildRowLimit(limit)
                   [] method = "buildQuery" -> buildQuery(Filter)
  /\ pc' = "done"
  /\ UNCHANGED <<args, builders, connector>>

\* camlBuilder.buildWhere(lbWhere) on a CamlBuilder for the same model
CamlBuilderBuildWhere ==
  /\ Len(camlDebug) < MaxDebug
  /\ \E done \in {CamlBuilder_buildWhere(lbWhere)} :
       /\ ret' = done.ret
       /\ lbWhere' = done.where
       /\ camlDebug' = camlDebug \o done.debug
  /\ call' = "CamlBuilder.buildWhere"
  /\ pc' = "done"
  /\ UNCHANGED <<model, property, order, fields, limit, log, connector>>

NextBuilders == SPLibBuildWhere \/ SPLibBuild \/ CamlBuilderBuildWhere

SpecBuilders == InitBuilders /\ [][NextBuilders]_vars

C23_WhereUnchanged == [][lbWhere' = lbWhere]_vars

\* a CamlBuilder has walked an and/or tree, which still has its children
C23_Witness ==
  /\ call = "CamlBuilder.buildWhere"
  /\ Len(camlDebug) > 1
  /\ IsLogical(lbWhere)
  /\ Len(Children(lbWhere)) >= 2

----------------------------------------------------------------------------
(* SharePointConnector: all, count, updateAll and destroyAll.  A method    *)
(* runs up to its call of getItemsFiltered; each handler it registers with *)
(* then or catch is a step of its own, taken once the promise it waits on  *)
(* is settled.  SharePoint settles the promises.                           *)

\* this._models[modelName].properties[propName].sharepoint.columnName || propName
getSPColumnName(propName) ==
  IF propName \in DOMAIN model /\ model[propName].columnName # ""
  THEN model[propName].columnName
  ELSE propName

\* the entity has the properties of the model, in the order of their
\* declaration, each with the value of its column
fromSPItem(spItem) ==
  IF spItem.t \in {"undef", "null"} THEN Null
  ELSE LET declared == <<"firstName", "lastName", "age", "startDate", "isEmployee",
                         "nickname">>
           inModel(propName) == propName \in DOMAIN model
           names == SelectSeq(declared, inModel) IN
       Obj([i \in 1..Len(names) |->
              KV(names[i], Get(spItem, getSPColumnName(names[i])))])

toSPProperties(lbProperties) ==
  IF lbProperties.t \in {"undef", "null"} THEN Null
  ELSE Obj([i \in 1..Len(lbProperties.e) |->
              KV(getSPColumnName(lbProperties.e[i].k), lbProperties.e[i].v)])

\* what SharePoint answers to the View the four documents make up: the
\* items that satisfy Where (no Where, or one Eq, Gt or In condition), in
\* the order of the first FieldRef of OrderBy, the first RowLimit of them,
\* each with its ID and the columns of ViewFields
getItemsByCAMLQuery(items, query) ==
  LET attr(el, name) ==
        IF \E i \in 1..Len(el.attrs) : el.attrs[i].k = name
        THEN el.attrs[CHOOSE i \in 1..Len(el.attrs) : el.attrs[i].k = name].v
        ELSE ""
      text(el) == IF Len(el.kids) = 0 THEN "" ELSE el.kids[1].s
      holds(item, cond) ==
        LET v == Get(item, attr(cond.kids[1], "Name")) IN
        CASE cond.tag = "Eq" -> toString(v) = text(cond.kids[2])
          [] cond.tag = "Gt" -> v.t = "num" /\ v.n > parseInt(Str(text(cond.kids[2]))).n
          [] cond.tag = "In" ->
               \E k \in 1..Len(cond.kids[2].kids) :
                 /\ cond.kids[2].kids[k].t = "el"
                 /\ toString(v) = text(cond.kids[2].kids[k])
          [] OTHER -> FALSE
      matches(item) == query.where.doc.t = "txt" \/ holds(item, query.where.doc.kids[1])
      matching == SelectSeq(items, matches)
      ref == query.orderBy.doc.kids[1]
      key(item) == Get(item, attr(ref, "Name")).n
      descending == toUpperCase(attr(ref, "Ascending")) = "FALSE"
      n == Len(matching)
      perm == CHOOSE p \in [1..n -> 1..n] :
                \A i \in 1..n : \A j \in 1..n :
                  i < j => /\ p[i] # p[j]
                           /\ IF descending
                              THEN key(matching[p[i]]) >= key(matching[p[j]])
                              ELSE key(matching[p[i]]) <= key(matching[p[j]])
      sorted == [i \in 1..n |-> matching[perm[i]]]
      rowLimit == IF query.rowLimit.doc.t = "txt" THEN n
                  ELSE parseInt(Str(text(query.rowLimit.doc))).n
      limited == SubSeq(sorted, 1, IF rowLimit < n THEN rowLimit ELSE n)
      inView(kv) ==
        \/ query.viewFields.doc.t = "txt"
        \/ kv.k = "ID"
        \/ \E i \in 1..Len(query.viewFields.doc.kids) :
             attr(query.viewFields.doc.kids[i], "Name") = kv.k IN
  [i \in 1..Len(limited) |-> Obj(SelectSeq(limited[i].e, inView))]

\* the list the test fills (lines 20-49), and the empty list
TestUsers ==
  <<Obj(<<KV("ID", Num(1)), KV("FirstName", Str("Joe")), KV("Age", Num(45))>>),
    Obj(<<KV("ID", Num(2)), KV("FirstName", Str("Heidrich")), KV("Age", Num(25))>>),
    Obj(<<KV("ID", Num(3)), KV("FirstName", Str("Piggie")), KV("Age", Num(33))>>),
    Obj(<<KV("ID", Num(4)), KV("FirstName", Str("Winston")), KV("Age", Num(69))>>)>>

\* a where that selects three of the users, one that selects none, none,
\* and one on a field the model does not declare
InitConnector ==
  /\ lbWhere \in {Undef,
                  Obj(<<KV("age", Obj(<<KV("gt", Num(30))>>))>>),
                  Obj(<<KV("age", Obj(<<KV("gt", Num(70))>>))>>),
                  Obj(<<KV("middleName", Str("Joe"))>>)}
  /\ fields \in {Undef, Arr(<<Str("firstName"), Str("age")>>)}
  /\ order \in {Undef, Str("age")}
  /\ limit \in {Undef, Num(1), Num(2)}
  /\ skip \in {Undef, Num(0), Num(1), Num(2)}
  /\ dataArg = Obj(<<KV("firstName", Str("Jimmy"))>>)
  /\ spList \in {TestUsers, << >>}
  /\ lbFilter = [fields |-> fields, where |-> lbWhere, order |-> order,
                 limit |-> limit, skip |-> skip]
  /\ model = ModelProperties
  /\ property = Undef
  /\ call = ""
  /\ pc = "ready"
  /\ ret = Undef
  /\ NewBuilders
  /\ handler = ""
  /\ originalFields = Undef /\ originalLimit = Undef
  /\ affectedRows = 0
  /\ request = Undef /\ settled = Undef
  /\ batch = << >>
  /\ callbacks = << >>

\* callback(err, result)
Callback(err, result) == callbacks' = Append(callbacks, [err |-> err, result |-> result])

\* connector.all(modelName, filter, options, callback), up to its call of
\* getItemsFiltered
All ==
  /\ pc = "ready"
  /\ call' = "all"
  /\ IF lbFilter.skip.t = "num" /\ lbFilter.skip.n # 0
     THEN /\ originalFields' = lbFilter.fields
          /\ originalLimit' = lbFilter.limit
          /\ lbFilter' = [lbFilter EXCEPT !.fields = Arr(<<Str("ID")>>), !.limit = Null]
          /\ request' = [filter |-> lbFilter', expandLookups |-> FALSE, inHandler |-> FALSE]
          /\ handler' = "ids"
     ELSE /\ request' = [filter |-> lbFilter, expandLookups |-> TRUE, inHandler |-> FALSE]
          /\ handler' = "entities"
          /\ UNCHANGED <<originalFields, originalLimit, lbFilter>>
  /\ pc' = "getItemsFiltered"
  /\ UNCHANGED <<args, ret, builders, skip, dataArg, spList, affectedRows, settled,
                 batch, callbacks>>

\* count, updateAll and destroyAll, up to their call of getItemsFiltered
\* with the filter {where, fields: ['ID']}
CountUpdateDestroy ==
  /\ pc = "ready"
  /\ \E method \in {"count", "updateAll", "destroyAll"} :
       /\ call' = method
       /\ handler' = IF method = "count" THEN "count" ELSE "batch"
  /\ affectedRows' = 0
  /\ request' = [filter |-> [where |-> lbWhere, fields |-> Arr(<<Str("ID")>>),
                             order |-> Undef, limit |-> Undef],
                 expandLookups |-> FALSE, inHandler |-> FALSE]
  /\ pc' = "getItemsFiltered"
  /\ UNCHANGED <<args, ret, builders, skip, dataArg, lbFilter, spList, originalFields,
                 originalLimit, settled, batch, callbacks>>

\* getItemsFiltered for the four documents of the query: what buildQuery
\* throws leaves the method when the method made the call, and rejects the
\* promise of the chain when a handler made it; else the query is sent
SendQuery(viewFields, where, orderBy, rowLimit) ==
  LET camlQuery == ViewXml(viewFields, where, orderBy, rowLimit) IN
  IF IsThrow(camlQuery)
  THEN IF request.inHandler
       THEN /\ settled' = [ok |-> FALSE, err |-> camlQuery]
            /\ pc' = "settled"
            /\ UNCHANGED <<ret, request>>
       ELSE /\ ret' = camlQuery
            /\ pc' = "thrown"
            /\ UNCHANGED <<request, settled>>
  ELSE /\ request' = [camlQuery |-> camlQuery,
                      query |-> [viewFields |-> viewFields, where |-> where,
                                 orderBy |-> orderBy, rowLimit |-> rowLimit],
                      expandLookups |-> request.expandLookups]
       /\ settled' = Undef
       /\ pc' = "pending"
       /\ UNCHANGED ret

GetItemsFiltered ==
  /\ pc = "getItemsFiltered"
  /\ \E viewFields \in {buildViewFields(request.filter.fields)},
        where \in {buildWhere(request.filter.where)},
        orderBy \in {buildOrderBy(request.filter.order)},
        rowLimit \in {buildRowLimit(request.filter.limit)} :
       SendQuery(viewFields, where, orderBy, rowLimit)
  /\ UNCHANGED <<args, call, builders, skip, dataArg, lbFilter, spList, handler,
                 originalFields, originalLimit, affectedRows, batch, callbacks>>

\* SharePoint answers the query, or the request fails
Settle ==
  /\ pc = "pending"
  /\ \E ok \in BOOLEAN :
       settled' = IF ok
                  THEN [ok |-> TRUE, items |-> getItemsByCAMLQuery(spList, request.query)]
                  ELSE [ok |-> FALSE, err |-> Throw("request failed")]
  /\ pc' = "settled"
  /\ UNCHANGED <<args, call, ret, builders, skip, dataArg, lbFilter, spList, handler,
                 originalFields, originalLimit, affectedRows, request, batch, callbacks>>

\* SkipIds with the IDs taken from the start of the list
SkipIds_fromStart ==
  /\ pc = "settled" /\ handler = "ids" /\ settled.ok
  /\ IF Len(settled.items) = 0
     THEN Callback(Null, Arr(<< >>))
     ELSE UNCHANGED callbacks
  /\ LET end == IF originalLimit.t = "num" /\ originalLimit.n # 0
                THEN originalLimit.n
                ELSE Len(settled.items)
         ids == [i \in 1..Len(settled.items) |-> Get(settled.items[i], "ID")] IN
     lbFilter' = [lbFilter EXCEPT
                    !.where = Obj(<<KV("ID", Obj(<<KV("inq",
                                Arr(SubSeq(ids, 1,
                                           IF end < Len(ids) THEN end ELSE Len(ids))))>>))>>),
                    !.fields = originalFields]
  /\ handler' = "query"
  /\ UNCHANGED <<args, call, pc, ret, builders, skip, dataArg, spList, originalFields,
                 originalLimit, affectedRows, request, settled, batch>>

\* the handler of lines 196-205: the callback is called for an empty answer
\* and the handler goes on; _.slice(ids, skip, end)
SkipIds ==
  /\ pc = "settled" /\ handler = "ids" /\ settled.ok
  /\ IF Len(settled.items) = 0
     THEN Callback(Null, Arr(<< >>))
     ELSE UNCHANGED callbacks
  /\ LET end == IF originalLimit.t = "num" /\ originalLimit.n # 0
                THEN lbFilter.skip.n + originalLimit.n
                ELSE Len(settled.items)
         ids == [i \in 1..Len(settled.items) |-> Get(settled.items[i], "ID")] IN
     lbFilter' = [lbFilter EXCEPT
                    !.where = Obj(<<KV("ID", Obj(<<KV("inq",
                                Arr(SubSeq(ids, lbFilter.skip.n + 1,
                                           IF end < Len(ids) THEN end ELSE Len(ids))))>>))>>),
                    !.fields = originalFields]
  /\ handler' = "query"
  /\ UNCHANGED <<args, call, pc, ret, builders, skip, dataArg, spList, originalFields,
                 originalLimit, affectedRows, request, settled, batch>>

\* the handler of lines 206-208, up to its call of getItemsFiltered
SkipQuery ==
  /\ pc = "settled" /\ handler = "query" /\ settled.ok
  /\ request' = [filter |-> lbFilter, expandLookups |-> FALSE, inHandler |-> TRUE]
  /\ handler' = "entities"
  /\ pc' = "getItemsFiltered"
  /\ UNCHANGED <<args, call, ret, builders, skip, dataArg, lbFilter, spList,
                 originalFields, originalLimit, affectedRows, settled, batch, callbacks>>

\* the handlers of lines 209-212 and 215-218
Entities ==
  /\ pc = "settled" /\ handler = "entities" /\ settled.ok
  /\ Callback(Null, Arr([i \in 1..Len(settled.items) |-> fromSPItem(settled.items[i])]))
  /\ pc' = "done"
  /\ UNCHANGED <<args, call, ret, builders, skip, dataArg, lbFilter, spList, handler,
                 originalFields, originalLimit, affectedRows, request, settled, batch>>

\* the handler of lines 133-135
CountItems ==
  /\ pc = "settled" /\ handler = "count" /\ settled.ok
  /\ Callback(Null, Num(Len(settled.items)))
  /\ pc' = "done"
  /\ UNCHANGED <<args, call, ret, builders, skip, dataArg, lbFilter, spList, handler,
                 originalFields, originalLimit, affectedRows, request, settled, batch>>

\* the handlers of lines 89-97 and 155-163: one request per item is added
\* to the batch and the batch is sent
BatchItems ==
  /\ pc = "settled" /\ handler = "batch" /\ settled.ok
  /\ batch' = [id \in {Get(settled.items[i], "ID").n : i \in 1..Len(settled.items)} |->
                 "pending"]
  /\ handler' = "execute"
  /\ pc' = "executing"
  /\ UNCHANGED <<args, call, ret, builders, skip, dataArg, lbFilter, spList,
                 originalFields, originalLimit, affectedRows, request, settled, callbacks>>

\* SharePoint answers the batch: the promise of each request and the
\* promise of batch.execute() are settled; the updated items have the
\* properties of spData, the deleted ones are gone
BatchSettle ==
  /\ pc = "executing"
  /\ \E resolved \in SUBSET (DOMAIN batch) : \E ok \in BOOLEAN :
       /\ batch' = [id \in DOMAIN batch |-> IF id \in resolved THEN "resolved" ELSE "rejected"]
       /\ settled' = IF ok THEN [ok |-> TRUE, items |-> << >>]
                     ELSE [ok |-> FALSE, err |-> Throw("request failed")]
       /\ LET spData == toSPProperties(dataArg)
              isResolved(item) == Get(item, "ID").n \in resolved
              stays(item) == ~isResolved(item)
              updated(item) ==
                IF isResolved(item)
                THEN Obj([i \in 1..Len(item.e) |->
                            IF HasOwn(spData, item.e[i].k)
                            THEN KV(item.e[i].k, Get(spData, item.e[i].k))
                            ELSE item.e[i]])
                ELSE item IN
          spList' = IF call = "destroyAll" THEN SelectSeq(spList, stays)
                    ELSE [i \in 1..Len(spList) |-> updated(spList[i])]
  /\ pc' = "settled"
  /\ UNCHANGED <<args, call, ret, builders, skip, dataArg, lbFilter, handler,
                 originalFields, originalLimit, affectedRows, request, callbacks>>

\* the per-item handlers of lines 92-94 and 158-160
ItemDone ==
  /\ \E id \in DOMAIN batch :
       /\ batch[id] = "resolved"
       /\ batch' = [batch EXCEPT ![id] = "done"]
  /\ affectedRows' = affectedRows + 1
  /\ UNCHANGED <<args, call, pc, ret, builders, skip, dataArg, lbFilter, spList, handler,
                 originalFields, originalLimit, request, settled, callbacks>>

\* the handlers of lines 98-100 and 164-166
BatchDone ==
  /\ pc = "settled" /\ handler = "execute" /\ settled.ok
  /\ Callback(Null, Obj(<<KV("count", Num(affectedRows))>>))
  /\ pc' = "done"
  /\ UNCHANGED <<args, call, ret, builders, skip, dataArg, lbFilter, spList, handler,
                 originalFields, originalLimit, affectedRows, request, settled, batch>>

\* the catch handlers of lines 101-103, 136-138 and 167-169; `count` at
\* line 137 is the function itself
Catch ==
  /\ pc = "settled" /\ call \in {"count", "updateAll", "destroyAll"} /\ ~settled.ok
  /\ Callback(settled.err, IF call = "count" THEN Str("[Function: count]") ELSE Undef)
  /\ pc' = "done"
  /\ UNCHANGED <<args, call, ret, builders, skip, dataArg, lbFilter, spList, handler,
                 originalFields, originalLimit, affectedRows, request, settled, batch>>

NextConnector ==
  \/ All \/ CountUpdateDestroy \/ GetItemsFiltered \/ Settle
  \/ SkipIds \/ SkipQuery \/ Entities
  \/ CountItems \/ BatchItems \/ BatchSettle \/ ItemDone \/ BatchDone \/ Catch

SpecConnector == InitConnector /\ [][NextConnector]_vars

\* the event loop runs what can run: a method that was called goes on to
\* its query, SharePoint answers or fails a request that was sent, and a
\* handler whose promise is settled is run
FairConnector == SpecConnector /\ WF_vars(NextConnector)

----------------------------------------------------------------------------
(* Claims about the connector *)

\* filter.skip is a number other than 0
Skipping == skip.t = "num" /\ skip.n # 0

\* the items at positions skip .. skip+limit-1 (to the end without a limit)
\* of the list SharePoint answers to the caller's where, order and fields
\* without a row limit
Page ==
  LET full == getItemsByCAMLQuery(spList,
                [viewFields |-> buildViewFields(fields), where |-> buildWhere(lbWhere),
                 orderBy |-> buildOrderBy(order), rowLimit |-> Xml(Txt(""))])
      end == IF limit.t = "num" /\ limit.n # 0 /\ skip.n + limit.n < Len(full)
             THEN skip.n + limit.n
             ELSE Len(full) IN
  SubSeq(full, skip.n + 1, end)

\* C24: on the skip path the first query asks for the ID column only, with
\* the caller's where and no row limit; the second query's where is ID inq
\* the IDs of the page; and the callback is passed exactly the entities of
\* the page
C24_SkipPage ==
  (call = "all" /\ Skipping) =>
    /\ (pc = "pending" /\ handler = "ids") =>
         /\ request.query.viewFields.s = "<ViewFields><FieldRef Name=\"ID\"/></ViewFields>"
         /\ request.query.rowLimit.s = ""
         /\ request.query.where = buildWhere(lbWhere)
    /\ (pc = "pending" /\ handler = "entities") =>
         request.query.where =
           buildWhere(Obj(<<KV("ID", Obj(<<KV("inq",
                        Arr([i \in 1..Len(Page) |-> Get(Page[i], "ID")]))>>))>>))
    /\ \A c \in 1..Len(callbacks) :
         /\ callbacks[c].err = Null
         /\ callbacks[c].result = Arr([i \in 1..Len(Page) |-> fromSPItem(Page[i])])

\* the call of the test at lines 91-95: order by age, skip 2, limit 2 gives
\* the users aged 45 and 69
C24_Witness ==
  /\ call = "all" /\ pc = "done"
  /\ skip = Num(2) /\ limit = Num(2) /\ order = Str("age")
  /\ Len(callbacks) = 1
  /\ Len(callbacks[1].result.a) = 2
  /\ Get(callbacks[1].result.a[1], "age") = Num(45)
  /\ Get(callbacks[1].result.a[2], "age") = Num(69)

\* C25: when updateAll or destroyAll calls back without an error, the count
\* it passes is the number of items the where clause matched, however the
\* per-item handlers and the handler of batch.execute() are interleaved
C25_CountMatches ==
  call \in {"updateAll", "destroyAll"} =>
    \A c \in 1..Len(callbacks) :
      callbacks[c].err = Null =>
        callbacks[c].result = Obj(<<KV("count", Num(Cardinality(DOMAIN batch)))>>)

\* C26: a call of all invokes its callback at most once
C26_CallbackOnce == call = "all" => Len(callbacks) <= 1

\* C27: a call of all is followed, sooner or later, by an invocation of its
\* callback
C27_CallbackEventually == (call = "all") ~> (callbacks # << >>)

\* C28: count, updateAll and destroyAll throw nothing to their caller
C28_NothingThrown ==
  call \in {"count", "updateAll", "destroyAll"} => (pc # "thrown" /\ ~IsThrow(ret))

\* C30: once a call of all has invoked its callback and is over, the
\* caller's filter has the fields, where, order, limit and skip it was
\* passed with
C30_FilterUnchanged ==
  (call = "all" /\ pc = "done") =>
    lbFilter = [fields |-> fields, where |-> lbWhere, order |-> order,
                limit |-> limit, skip |-> skip]

====
